---- MODULE Spec2Model ----
(***************************************************************************)
(* Relevance ranking of the Yetifoam response generator.                   *)
(*                                                                         *)
(* Texts are TLA+ strings handled character by character, so that Python's *)
(* `in`, lower(), strip(), split(), replace() and len() are modelled by    *)
(* what they do.  Scores are exact rationals held as integers in units of  *)
(* 1/Scale of a percentage point (the program uses binary floats; the      *)
(* model has no rounding error).  The fuzzywuzzy calls are a library the   *)
(* repository does not contain: each call returns an integer in 0..100     *)
(* that the model draws from a set of sample outcomes.                     *)
(***************************************************************************)
EXTENDS Integers, Sequences, FiniteSets, TLC

VARIABLES
    responses,   \* CompleteMatcher.responses: the corpus of the primary path
    dataset,     \* YetifoamEnhancedResponseGenerator.dataset
    call,        \* the last operation called, with its arguments
    ret,         \* what that call returned or raised
    all_scores,  \* what the call worked out for each entry: the sorted list of
                 \* find_best_match_from_all, the scoring loop results of
                 \* search_responses, the scores of find_best_response, the
                 \* verdict of a consolidation script on each input row
    final_df,    \* the rows of final_unified_responses.parquet
    now,         \* the clock read by datetime.now() and time.time(), in seconds
    failed_attempts,   \* YetifoamEnhancedResponseGenerator.failed_attempts
    rate_limit_calls,  \* YetifoamEnhancedResponseGenerator.rate_limit_calls
    session_state,     \* st.session_state of the browser session
    invocations        \* how often the function behind the rate limit has run,
                       \* by user and time

vars == <<responses, dataset, call, ret, all_scores, final_df, now, failed_attempts, rate_limit_calls, session_state, invocations>>

\* the state of the web application before anyone has used it
AppUnused ==
    /\ now = 0
    /\ failed_attempts = <<>>
    /\ rate_limit_calls = <<>>
    /\ session_state = <<>>
    /\ invocations = <<>>

(***************************************************************************)
(* Bounds of the model.                                                    *)
(***************************************************************************)
MaxCorpus == 2

\* score units per percentage point: 8400 = lcm(1..8) * 10, so that every
\* ratio the code forms (n/8 contexts, n/6 words, 0.8 *, 0.15 *) is exact
Scale == 84 * 100

Pct(n) == n * Scale

Max(a, b) == IF a >= b THEN a ELSE b
Min(a, b) == IF a <= b THEN a ELSE b

(***************************************************************************)
(* Python string primitives.                                               *)
(***************************************************************************)
UpperChars == "ABCDEFGHIJKLMNOPQRSTUVWXYZ"
LowerChars == "abcdefghijklmnopqrstuvwxyz"
Digits == "0123456789"
Whitespace == {" ", "\t", "\n"}

CharAt(s, i) == SubSeq(s, i, i)

\* the characters of a string, as a set
Chars(str) == { CharAt(str, i) : i \in 1..Len(str) }

UpperSet == Chars(UpperChars)

LowerChar(c) ==
    IF c \in UpperSet
    THEN CharAt(LowerChars, CHOOSE i \in 1..26 : CharAt(UpperChars, i) = c)
    ELSE c

\* the least element of a non-empty set of integers
MinOf(S) == CHOOSE x \in S : \A y \in S : x <= y

\* the elements of a finite set of integers, in ascending order
Ascending(S) ==
    [k \in 1..Cardinality(S) |-> CHOOSE i \in S : Cardinality({ j \in S : j < i }) = k - 1]

\* str.lower() (the halves are lowered separately to keep the recursion shallow)
RECURSIVE Lower(_)
Lower(s) ==
    IF Len(s) = 0 THEN ""
    ELSE IF Len(s) = 1 THEN LowerChar(s)
    ELSE LET h == Len(s) \div 2
         IN Lower(SubSeq(s, 1, h)) \o Lower(SubSeq(s, h + 1, Len(s)))

\* sub in s
Contains(s, sub) ==
    \E i \in 0..(Len(s) - Len(sub)) : SubSeq(s, i + 1, i + Len(sub)) = sub

\* str.lstrip(), str.rstrip(), str.strip()
LStrip(s) ==
    LET black == { i \in 1..Len(s) : CharAt(s, i) \notin Whitespace }
    IN IF black = {} THEN "" ELSE SubSeq(s, MinOf(black), Len(s))

RStrip(s) ==
    LET black == { i \in 1..Len(s) : CharAt(s, i) \notin Whitespace }
    IN IF black = {} THEN "" ELSE SubSeq(s, 1, CHOOSE i \in black : \A j \in black : j <= i)

Strip(s) == LStrip(RStrip(s))

\* str.replace(old, new): every non-overlapping occurrence, left to right
RECURSIVE ReplaceFrom(_, _, _, _)
ReplaceFrom(s, old, new, i) ==
    LET found == { j \in i..(Len(s) - Len(old) + 1) : SubSeq(s, j, j + Len(old) - 1) = old }
    IN IF found = {} \/ old = "" THEN SubSeq(s, i, Len(s))
       ELSE LET j == MinOf(found)
            IN SubSeq(s, i, j - 1) \o new \o ReplaceFrom(s, old, new, j + Len(old))

Replace(s, old, new) == ReplaceFrom(s, old, new, 1)

\* str.split(): the maximal runs of non-whitespace, in order
Split(s) ==
    LET n == Len(s)
        starts == { i \in 1..n : /\ CharAt(s, i) \notin Whitespace
                                 /\ (i = 1 \/ CharAt(s, i - 1) \in Whitespace) }
        StartOf(k) == CHOOSE i \in starts : Cardinality({ x \in starts : x < i }) = k - 1
        EndOf(i) == CHOOSE j \in i..n :
                        /\ \A x \in i..j : CharAt(s, x) \notin Whitespace
                        /\ (j = n \/ CharAt(s, j + 1) \in Whitespace)
    IN [k \in 1..Cardinality(starts) |-> SubSeq(s, StartOf(k), EndOf(StartOf(k)))]

\* ' '.join(seq)
RECURSIVE Join(_)
Join(seq) ==
    IF Len(seq) = 0 THEN ""
    ELSE IF Len(seq) = 1 THEN seq[1]
    ELSE seq[1] \o " " \o Join(Tail(seq))

Range(seq) == {seq[i] : i \in 1..Len(seq)}

\* list.sort(key=..., reverse=True): descending by key, and stable (entries
\* with equal keys keep their order), as Python's sort guarantees
\* keys[i] is the key of seq[i]
StableSortDesc(seq, keys) ==
    LET n == Len(seq)
        Rank(i) == 1 + Cardinality({j \in 1..n :
                          \/ keys[j] > keys[i]
                          \/ (keys[j] = keys[i] /\ j < i)})
    IN [r \in 1..n |-> seq[CHOOSE i \in 1..n : Rank(i) = r]]

Return(v) == [kind |-> "return", value |-> v]
Raise(e) == [kind |-> "raise", exc |-> e]
\* no call in progress, nothing returned
Idle == [op |-> "none"]
NoReturn == [kind |-> "none"]

(***************************************************************************)
(* fuzzywuzzy.  fuzz.ratio, fuzz.partial_ratio, fuzz.token_set_ratio and   *)
(* fuzz.token_sort_ratio return an integer in 0..100, and 0 when either    *)
(* argument is empty; the value for two non-empty strings is drawn from    *)
(* the sample outcomes below.                                              *)
(***************************************************************************)
FuzzCall(v, s1, s2) == IF s1 = "" \/ s2 = "" THEN 0 ELSE v

\* outcomes of the six fuzz calls calculate_response_score makes for one entry
FuzzSample(a, b, c, d, e, f) ==
    [oq_token_set |-> a, oq_partial |-> b, oq_ratio |-> c,
     resp_token_set |-> d, resp_partial |-> e, cat_partial |-> f]

FuzzSamples ==
    { FuzzSample(0, 0, 0, 0, 0, 0),
      FuzzSample(100, 100, 100, 100, 100, 100),
      FuzzSample(60, 100, 45, 100, 80, 0),      \* 40 + 30: exactly 70
      FuzzSample(90, 99, 80, 99, 95, 0),        \* 69.3
      FuzzSample(100, 70, 70, 0, 0, 0),         \* exactly 40
      FuzzSample(50, 65, 40, 70, 90, 30),       \* 57.5
      FuzzSample(30, 35, 20, 40, 45, 50) }      \* 35

(***************************************************************************)
(* CompleteMatcher (complete_semantic_matcher.py)                          *)
(***************************************************************************)
context_keywords ==
    << [name |-> "safety_pet",
        keywords |-> <<"safe", "dog", "cat", "pet", "eat", "toxic", "non-toxic", "health", "animal">>],
       [name |-> "electrical",
        keywords |-> <<"cable", "wire", "electrical", "electric", "rewire", "wiring", "subfloor">>],
       [name |-> "installation_access",
        keywords |-> <<"install", "access", "tight", "space", "clearance", "nightmare", "difficult">>],
       [name |-> "cost_pricing",
        keywords |-> <<"cost", "price", "much", "pm2", "per m2", "square meter", "expensive", "quote">>],
       [name |-> "thermal_rvalue",
        keywords |-> <<"r-value", "r value", "thermal", "per inch", "resistance", "insulation">>],
       [name |-> "fire_safety",
        keywords |-> <<"fire", "safety", "standard", "as1530", "compliance", "flame", "meet">>],
       [name |-> "moisture",
        keywords |-> <<"moisture", "condensation", "water", "damp", "stop", "prevent", "barrier">>],
       [name |-> "sound",
        keywords |-> <<"sound", "noise", "acoustic", "dampen", "quiet", "soundproof">> ] >>

\* the contexts whose keywords occur in the query (used as a set by the caller)
get_query_context(query) ==
    LET query_lower == Lower(query)
    IN { context_keywords[i].name : i \in
           { k \in 1..Len(context_keywords) :
               \E j \in 1..Len(context_keywords[k].keywords) :
                   Contains(query_lower, context_keywords[k].keywords[j]) } }

Max3(a, b, c) == Max(a, Max(b, c))

WeightedScoreHeavyQuery(s) ==
    (50 * s.query_match + 30 * s.content_match
       + 15 * s.category_match + 15 * s.context_match) \div 100

\* final_score = query_match*0.40 + content_match*0.30 + category_match*0.15
\*               + context_match*0.15
WeightedScore(s) ==
    (40 * s.query_match + 30 * s.content_match
       + 15 * s.category_match + 15 * s.context_match) \div 100

calculate_response_score(query, response_item, fz) ==
    LET response_text == response_item.response
        original_query == response_item.original_query
        category == response_item.category
        query_norm == Strip(Lower(query))
        response_norm == Lower(response_text)
        orig_query_norm == Lower(original_query)
        category_norm == Lower(category)
        query_match ==
            IF orig_query_norm # ""
            THEN Max3(FuzzCall(fz.oq_token_set, query_norm, orig_query_norm),
                      FuzzCall(fz.oq_partial, query_norm, orig_query_norm),
                      FuzzCall(fz.oq_ratio, query_norm, orig_query_norm))
            ELSE 0
        content_match ==
            Max(FuzzCall(fz.resp_token_set, query_norm, response_norm),
                FuzzCall(fz.resp_partial, query_norm, response_norm))
        category_match == FuzzCall(fz.cat_partial, query_norm, category_norm)
        query_contexts == get_query_context(query)
        response_contexts == get_query_context(response_text \o " " \o original_query)
        context_overlap == Cardinality(query_contexts \cap response_contexts)
        context_union == Cardinality(query_contexts \cup response_contexts)
        context_match ==
            IF query_contexts # {} /\ response_contexts # {}
            THEN (IF context_union > 0
                  THEN (context_overlap * Pct(100)) \div context_union ELSE 0)
            ELSE 0
        scores == [query_match |-> Pct(query_match),
                   content_match |-> Pct(content_match),
                   category_match |-> Pct(category_match),
                   context_match |-> context_match]
    IN [score |-> WeightedScore(scores), individual_scores |-> scores]

(***************************************************************************)
(* The corpora and queries the model runs CompleteMatcher on.              *)
(***************************************************************************)
MatcherEntry(r, oq, c, idx) ==
    [response |-> r, original_query |-> oq, category |-> c,
     source |-> "csv", original_index |-> idx]

MatcherCatalogue ==
    { MatcherEntry("Yetifoam is Non-Toxic once cured", "is it safe", "Safety", "1"),
      MatcherEntry("Run electrical around the foam", "", "Electrical", "2"),
      MatcherEntry("Contact us for a quote", "how much", "Pricing", "3") }

SeqsUpTo(S, n) == UNION { [1..k -> S] : k \in 0..n }

MatcherQueries ==
    { "", "  ", "safe for dogs", "cables in subfloor", "how much pm2", "zzz" }

\* calculate_response_score over the model's inputs, evaluated once
ResponseScoreTable ==
    [q \in MatcherQueries, e \in MatcherCatalogue, fz \in FuzzSamples |->
        calculate_response_score(q, e, fz)]

\* the list find_best_match_from_all builds, one result per corpus entry
ScoreAll(query, fzs) ==
    [i \in 1..Len(responses) |->
        LET response_item == responses[i]
            scored == ResponseScoreTable[query, response_item, fzs[i]]
        IN [score |-> scored.score,
            response_text |-> response_item.response,
            original_query |-> response_item.original_query,
            category |-> response_item.category,
            source |-> response_item.source,
            original_index |-> response_item.original_index,
            scoring_details |-> scored.individual_scores,
            response_index |-> i - 1]]

\* key=lambda x: x['score'], for every element of the list
ScoreKeys(seq) == [i \in 1..Len(seq) |-> seq[i].score]

_minimal_adapt_response(query, match) ==
    LET query_lower == Lower(query)
        r0 == match.response_text
        r1 == IF (Contains(query_lower, "dog") \/ Contains(query_lower, "pet"))
                 /\ Contains(Lower(r0), "non-toxic") /\ ~Contains(Lower(r0), "pet")
              THEN Replace(r0, "non-toxic", "non-toxic for pets") ELSE r0
        r2 == IF Contains(query_lower, "cable") /\ Contains(Lower(r1), "electrical")
                 /\ Contains(Lower(r1), "around") /\ ~Contains(Lower(r1), "cable")
              THEN Replace(r1, "electrical", "electrical cables") ELSE r1
        r3 == IF (Contains(query_lower, "pm2") \/ Contains(query_lower, "per m2"))
                 /\ Contains(Lower(r2), "contact")
              THEN Replace(r2, "contact", "contact us for per m2 pricing") ELSE r2
    IN r3

\* _minimal_adapt_response over the model's inputs, evaluated once
AdaptedTextTable ==
    [q \in MatcherQueries, e \in MatcherCatalogue |->
        _minimal_adapt_response(q, [response_text |-> e.response])]

GenericText ==
    "Yetifoam is premium closed-cell spray foam insulation designed for Australian conditions. For specific information, contact us at https://yetifoam.com.au/contact/"

_get_generic_response ==
    [success |-> TRUE,
     response |-> GenericText,
     confidence |-> Pct(60),
     category |-> "General",
     match_type |-> "generic_fallback",
     source_info |-> "fallback:generic",
     adaptation |-> "generic"]

ClosestPrefix == "Based on closest match: "

AdaptedConfidenceBoost15(score) == Min(score + Pct(15), Pct(85))

AdaptedConfidenceBoost20(score) == Min(score + Pct(20), Pct(85))

\* min(best_match['score'] + 10, 85)
AdaptedConfidence(score) == Min(score + Pct(10), Pct(85))

ClosestConfidenceNoFloor(score) == score

\* max(best_match['score'], 60)
ClosestConfidence(score) == Max(score, Pct(60))

SourceInfo(m) == m.source \o ":" \o m.original_index

TierOfStrict(score) ==
    IF score > Pct(70) THEN "direct"
    ELSE IF score > Pct(40) THEN "adapted"
    ELSE "closest_available"

\* the if / elif / else over best_match['score']
TierOf(score) ==
    IF score >= Pct(70) THEN "direct"
    ELSE IF score >= Pct(40) THEN "adapted"
    ELSE "closest_available"

\* the dict returned for the best match
BestMatchResult(query, best_match) ==
    LET tier == TierOf(best_match.score)
    IN IF tier = "direct"
       THEN [success |-> TRUE,
             response |-> best_match.response_text,
             confidence |-> best_match.score,
             category |-> best_match.category,
             match_type |-> "direct",
             source_info |-> SourceInfo(best_match),
             adaptation |-> "none"]
       ELSE IF tier = "adapted"
       THEN [success |-> TRUE,
             response |-> AdaptedTextTable[query, responses[best_match.response_index + 1]],
             confidence |-> AdaptedConfidence(best_match.score),
             category |-> best_match.category,
             match_type |-> "adapted",
             source_info |-> SourceInfo(best_match),
             adaptation |-> "minimal_tweaks"]
       ELSE [success |-> TRUE,
             response |-> ClosestPrefix \o best_match.response_text,
             confidence |-> ClosestConfidence(best_match.score),
             category |-> best_match.category,
             match_type |-> "closest_available",
             source_info |-> SourceInfo(best_match),
             adaptation |-> "prefixed"]

IsEmptyQueryOnly(query) == query = ""

\* not query or not query.strip()
IsBlankQuery(query) == query = "" \/ Strip(query) = ""

\* find_best_match_from_all(query): the blank-query return, the scoring loop,
\* the sort, all_scores[0] (IndexError on an empty list) and the tiers
find_best_match_from_all(query) ==
    /\ call = Idle
    /\ call' = [op |-> "find_best_match_from_all", query |-> query]
    /\ IF IsBlankQuery(query)
       THEN /\ ret' = Return(_get_generic_response)
            /\ all_scores' = <<>>
       ELSE \E fzs \in [1..Len(responses) -> FuzzSamples] :
              LET scored == ScoreAll(query, fzs)
                  sorted == StableSortDesc(scored, ScoreKeys(scored))
              IN /\ all_scores' = sorted
                 /\ ret' = IF Len(sorted) = 0
                           THEN Raise("IndexError")
                           ELSE Return(BestMatchResult(query, sorted[1]))
    /\ UNCHANGED <<responses, dataset, final_df, now, failed_attempts, rate_limit_calls, session_state, invocations>>

\* the caller consumes the result; the next call starts afresh
Discard ==
    /\ call # Idle
    /\ call' = Idle
    /\ ret' = NoReturn
    /\ all_scores' = <<>>
    /\ UNCHANGED <<responses, dataset, final_df, now, failed_attempts, rate_limit_calls, session_state, invocations>>

InitMatcher ==
    /\ responses \in SeqsUpTo(MatcherCatalogue, MaxCorpus)
    /\ dataset = <<>>
    /\ final_df = <<>>
    /\ AppUnused
    /\ call = Idle
    /\ ret = NoReturn
    /\ all_scores = <<>>

NextMatcher ==
    \/ \E q \in MatcherQueries : find_best_match_from_all(q)
    \/ Discard

SpecMatcher == InitMatcher /\ [][NextMatcher]_vars

(***************************************************************************)
(* Regular expressions, as far as normalize_text uses them.  A pattern is  *)
(* a sequence of items: a word boundary, a literal string, or one /        *)
(* zero-or-one / zero-or-more / one-or-more characters of a class (the     *)
(* set of the characters it holds).  Matching backtracks with greedy       *)
(* repetition, as Python's re does.                                        *)
(***************************************************************************)
WordChars == Chars(LowerChars \o UpperChars \o Digits \o "_")
SpaceChars == Whitespace
DigitChars == Chars(Digits)

B == << [t |-> "b"] >>
L(str) == << [t |-> "lit", c |-> str] >>
One(cs) == << [t |-> "one", cs |-> cs] >>
NoneOf(cs) == << [t |-> "none_of", cs |-> cs] >>
Opt(cs) == << [t |-> "opt", cs |-> cs] >>
Star(cs) == << [t |-> "star", cs |-> cs] >>
Plus(cs) == << [t |-> "plus", cs |-> cs] >>

IsWordAt(s, i) == i >= 1 /\ i <= Len(s) /\ CharAt(s, i) \in WordChars

\* \b before position i: exactly one of s[i-1], s[i] is a word character
AtBoundary(s, i) == IsWordAt(s, i - 1) # IsWordAt(s, i)

\* the number of consecutive characters of class cs from position i
Run(s, i, cs) ==
    CHOOSE n \in 0..(Len(s) - i + 1) :
        /\ \A x \in i..(i + n - 1) : CharAt(s, x) \in cs
        /\ (i + n > Len(s) \/ CharAt(s, i + n) \notin cs)

\* the position after the match of pat[k..] at position i of s, or -1
RECURSIVE MatchEnd(_, _, _, _)
RECURSIVE TryRepeat(_, _, _, _, _, _)
MatchEnd(pat, k, s, i) ==
    IF k > Len(pat) THEN i
    ELSE LET it == pat[k]
         IN CASE it.t = "b" ->
                   IF AtBoundary(s, i) THEN MatchEnd(pat, k + 1, s, i) ELSE -1
              [] it.t = "lit" ->
                   IF i + Len(it.c) - 1 <= Len(s) /\ SubSeq(s, i, i + Len(it.c) - 1) = it.c
                   THEN MatchEnd(pat, k + 1, s, i + Len(it.c)) ELSE -1
              [] it.t = "one" ->
                   IF i <= Len(s) /\ CharAt(s, i) \in it.cs
                   THEN MatchEnd(pat, k + 1, s, i + 1) ELSE -1
              [] it.t = "none_of" ->
                   IF i <= Len(s) /\ CharAt(s, i) \notin it.cs
                   THEN MatchEnd(pat, k + 1, s, i + 1) ELSE -1
              [] it.t = "opt" -> TryRepeat(pat, k, s, i, Min(Run(s, i, it.cs), 1), 0)
              [] it.t = "star" -> TryRepeat(pat, k, s, i, Run(s, i, it.cs), 0)
              [] it.t = "plus" -> TryRepeat(pat, k, s, i, Run(s, i, it.cs), 1)

\* item k repeated n times, then n-1, ... down to lo, until the rest matches
TryRepeat(pat, k, s, i, n, lo) ==
    IF n < lo THEN -1
    ELSE LET r == MatchEnd(pat, k + 1, s, i + n)
         IN IF r # -1 THEN r ELSE TryRepeat(pat, k, s, i, n - 1, lo)

\* re.sub(pat, repl, s): the non-overlapping matches, leftmost first.  The
\* positions where pat matches are visited in ascending order, one half of
\* them after the other; acc carries the text produced so far and the first
\* position free of an earlier match.
ReSub(pat, repl, s) ==
    LET starts == Ascending({ j \in 1..Len(s) : MatchEnd(pat, 1, s, j) > j })
        At(j, acc) ==
            IF j < acc.free THEN acc
            ELSE [out |-> acc.out \o SubSeq(s, acc.free, j - 1) \o repl,
                  free |-> MatchEnd(pat, 1, s, j)]
        Scan[a \in Nat, b \in Nat, acc \in [out : STRING, free : Nat]] ==
            IF a > b THEN acc
            ELSE IF a = b THEN At(starts[a], acc)
            ELSE Scan[(a + b) \div 2 + 1, b, Scan[a, (a + b) \div 2, acc]]
        done == Scan[1, Len(starts), [out |-> "", free |-> 1]]
    IN IF Len(starts) = 0 THEN s ELSE done.out \o SubSeq(s, done.free, Len(s))

(***************************************************************************)
(* YetifoamEnhancedResponseGenerator.normalize_text                        *)
(***************************************************************************)
Word(w) == B \o L(w) \o B
Words2(a, b) == B \o L(a) \o Plus(SpaceChars) \o L(b) \o B
Prefix(w) == B \o L(w) \o Star(WordChars) \o B
Words2Prefix(a, b) == B \o L(a) \o Plus(SpaceChars) \o L(b) \o Star(WordChars) \o B
Rule(pat, expansion) == [pattern |-> pat, expansion |-> expansion]

\* the dict technical_entities, in insertion order
technical_entities ==
    << Rule(B \o L("r") \o Opt({"-", "_"}) \o L("value") \o Opt({"s"}) \o B,
            "thermal resistance r value"),
       Rule(Words2("thermal", "resistance"), "r value thermal resistance"),
       Rule(Words2("thermal", "bridge"), "thermal bridging cold bridge heat transfer"),
       Rule(Words2("cold", "bridge"), "thermal bridging cold bridge heat transfer"),
       Rule(Words2Prefix("energy", "effic"), "energy efficiency thermal performance"),
       Rule(Words2Prefix("thermal", "conduct"), "thermal conductivity thermal performance"),
       Rule(Words2("heat", "transfer"), "thermal bridging heat transfer"),
       Rule(B \o L("as") \o Star(SpaceChars) \o One(DigitChars) \o One(DigitChars)
              \o One(DigitChars) \o One(DigitChars) \o Opt({"."}) \o Star(DigitChars) \o B,
            "australian standard as compliance"),
       Rule(Words2("australian", "standard"), "as compliance australian standard"),
       Rule(Words2("building", "code"), "compliance building standards regulations"),
       Rule(Word("compliance"), "standards compliance regulations"),
       Rule(Words2("fire", "rating"), "fire safety as1530 fire performance"),
       Rule(Words2("fire", "safety"), "fire rating fire performance as1530"),
       Rule(Words2("spray", "foam"), "yetifoam polyurethane closed cell insulation"),
       Rule(Words2("polyurethane", "foam"), "yetifoam closed cell polyurethane insulation"),
       Rule(Words2("closed", "cell"), "closed cell polyurethane yetifoam rigid foam"),
       Rule(Words2("open", "cell"), "open cell foam spray insulation"),
       Rule(B \o L("vapo") \o Opt({"u"}) \o L("r") \o Plus(SpaceChars) \o L("barrier") \o B,
            "moisture barrier vapour barrier air seal"),
       Rule(Words2("moisture", "barrier"), "vapour barrier moisture protection"),
       Rule(Words2("air", "seal"), "airtight vapour barrier air sealing"),
       Rule(B \o L("sound") \o Star(SpaceChars) \o L("proof") \o Star(WordChars) \o B,
            "acoustic soundproofing sound dampening noise reduction"),
       Rule(Word("acoustic"), "soundproofing sound dampening acoustic performance"),
       Rule(Words2Prefix("noise", "reduct"), "soundproofing acoustic sound dampening"),
       Rule(Prefix("instal"), "installation application install"),
       Rule(Prefix("applicat"), "installation application install"),
       Rule(Words2("curing", "time"), "curing application installation"),
       Rule(Word("substrate"), "surface application substrate preparation"),
       Rule(Word("vic"), "victoria melbourne braeside"),
       Rule(Word("tas"), "tasmania service area regional"),
       Rule(Prefix("melb"), "melbourne victoria braeside"),
       Rule(Word("braeside"), "melbourne victoria service area"),
       Rule(Word("regional"), "victoria regional service areas"),
       Rule(Word("diy"), "do it yourself self install"),
       Rule(Word("hvac"), "heating ventilation air conditioning"),
       Rule(Word("pvc"), "polyvinyl chloride cable wiring"),
       Rule(Word("eps"), "expanded polystyrene foam insulation"),
       Rule(Word("mould"), "mold moisture condensation"),
       Rule(Prefix("effic"), "efficiency performance effective") >>

\* for pattern, expansion in technical_entities.items(): re.sub(...)
ApplyRules(rules, text) ==
    LET From[lo \in Nat, hi \in Nat, s \in STRING] ==
            IF lo > hi THEN s
            ELSE IF lo = hi THEN ReSub(rules[lo].pattern, rules[lo].expansion, s)
            ELSE From[(lo + hi) \div 2 + 1, hi, From[lo, (lo + hi) \div 2, s]]
    IN From[1, Len(rules), text]

\* the successive assignments to `normalized`, each made before the next starts
normalize_text(text) ==
    LET Step[k \in 1..5, normalized \in STRING] ==
            CASE k = 1 -> Step[2, Lower(normalized)]
              \* re.sub(r'[^\w\s\-\.]', ' ', normalized)
              [] k = 2 -> Step[3, ReSub(NoneOf(WordChars \cup SpaceChars \cup {"-", "."}),
                                        " ", normalized)]
              \* re.sub(r'\s+', ' ', normalized)
              [] k = 3 -> Step[4, ReSub(Plus(SpaceChars), " ", normalized)]
              [] k = 4 -> Step[5, ApplyRules(technical_entities, normalized)]
              \* re.sub(r'\s+', ' ', normalized).strip()
              [] k = 5 -> Strip(ReSub(Plus(SpaceChars), " ", normalized))
    IN IF text = "" THEN "" ELSE Step[1, text]


(***************************************************************************)
(* YetifoamEnhancedResponseGenerator: the dataset and the queries the      *)
(* model runs it on.  A field an item lacks is held as "": the code reads  *)
(* every text field through `field in item and item[field]` or .get(f, '') *)
(***************************************************************************)
Item(std, iq, orig, resp, cat, src) ==
    [standardized_response |-> std, inferred_question |-> iq,
     original_text |-> orig, response_text |-> resp,
     category |-> cat, source |-> src]

ItemCatalogue ==
    { Item("Yetifoam meets Australian Standard fire safety compliance",
           "is it fire safe", "", "", "Fire Safety", "faq"),
      Item("", "", "DIY install cost per m2", "", "Pricing", "csv"),
      Item("", "what is the R-value", "", "", "Thermal Performance", "faq") }

SearchQueries == { "", "???", "cost", "fire safety", "DIY", "how much pm2", "what is the R-value" }

\* confidence_threshold * 100, and max_results, as callers pass them
Thresholds == { 60, 75 }
MaxResultsChoices == { 1, 5 }

\* outcomes of the five fuzz calls enhanced_fuzzy_search makes for one entry
GenFuzzSample(a, b, c, d, e) ==
    [token_set |-> a, partial |-> b, token_sort |-> c, ratio |-> d, cat_partial |-> e]

GenFuzzSamples ==
    { GenFuzzSample(0, 0, 0, 0, 0),
      GenFuzzSample(22, 33, 25, 12, 20),
      GenFuzzSample(60, 70, 50, 40, 60),
      GenFuzzSample(80, 90, 60, 50, 80),
      GenFuzzSample(100, 100, 100, 100, 100) }

\* str(item[field]).strip() repeated max(1, int(weight * 5)) times, for the
\* fields standardized_response (0.50), inferred_question (0.30),
\* original_text (0.20), response_text (0.15), category (0.05), joined by ' '
get_searchable_text(item) ==
    LET Reps(text, n) == IF Strip(text) = "" THEN <<>> ELSE [rep \in 1..n |-> Strip(text)]
    IN Join(Reps(item.standardized_response, 2)
              \o Reps(item.inferred_question, 1)
              \o Reps(item.original_text, 1)
              \o Reps(item.response_text, 1)
              \o Reps(item.category, 1))

\* the first non-empty of standardized_response, response_text, original_text
get_response_text(item) ==
    IF item.standardized_response # "" THEN item.standardized_response
    ELSE IF item.response_text # "" THEN item.response_text
    ELSE IF item.original_text # "" THEN item.original_text
    ELSE ""

\* normalize_text over the texts the model passes to it, evaluated once
NormInputs ==
    SearchQueries \cup { get_searchable_text(it) : it \in ItemCatalogue }
                  \cup { it.category : it \in ItemCatalogue } \cup { "" }

NormTable == [t \in NormInputs |-> normalize_text(t)]

(***************************************************************************)
(* calculate_quality_score.  The keyword tables are the code's; a keyword  *)
(* written in upper case is compared with the lowered text as written.     *)
(***************************************************************************)
quality_keywords ==
    [technical |-> <<"spray foam", "yetifoam", "insulation", "r-value", "thermal",
                     "polyurethane", "closed-cell", "open-cell", "foam", "vapour barrier",
                     "air seal", "thermal resistance", "rigid", "dense", "substrate",
                     "application", "curing">>,
     standards |-> <<"AS 1530", "AS 3837", "AS 3000", "AS 3999", "AS 3660", "ASTM E96",
                     "australian standard", "building code", "compliance", "class 2",
                     "class 1", "certification", "bal", "bushfire attack level">>,
     professional |-> <<"recommend", "professional", "experience", "quality", "certified",
                        "installation", "assessment", "applicators", "installers",
                        "calibrated", "trained", "site visit", "quote", "enquiry", "contact">>,
     locations |-> <<"victoria", "braeside", "melbourne", "tasmania", "australia",
                     "victorian", "dandenong", "gippsland", "wodonga", "regional">>]

RECURSIVE SumSeq(_)
SumSeq(seq) == IF seq = <<>> THEN 0 ELSE Head(seq) + SumSeq(Tail(seq))

\* any(term in text for term in terms)
AnyIn(terms, text) == \E term \in terms : Contains(text, term)

\* the capped sub-scores, the category bonus, the depth points and the count
\* of strong indicators that calculate_quality_score works out for a text
QualitySubScores(text, category) ==
    LET text_lower == Lower(text)
        category_lower == Lower(category)
        Points(keywords, P(_)) ==
            SumSeq([i \in 1..Len(keywords) |->
                       IF Contains(text_lower, keywords[i]) THEN P(keywords[i]) ELSE 0])
        TechPoints(keyword) ==
            IF keyword \in {"r-value", "thermal resistance", "polyurethane", "closed-cell",
                            "vapour barrier"} THEN 4 ELSE 2
        StandardPoints(standard) ==
            IF Contains(standard, "as ") \/ Contains(standard, "australian standard") THEN 8
            ELSE IF Contains(standard, "astm") \/ Contains(standard, "compliance") THEN 5
            ELSE 3
        ProfPoints(prof_term) ==
            IF prof_term \in {"professional", "certified", "assessment", "installation"}
            THEN 3 ELSE 1
        LocationPoints(location) ==
            IF location \in {"victoria", "braeside", "melbourne"} THEN 2 ELSE 1
        tech_score == Points(quality_keywords.technical, TechPoints)
        standards_score == Points(quality_keywords.standards, StandardPoints)
        prof_score == Points(quality_keywords.professional, ProfPoints)
        location_score == Points(quality_keywords.locations, LocationPoints)
        category_bonus ==
            IF category_lower = "" THEN 0
            ELSE IF Contains(category_lower, "fire safety")
            THEN (IF AnyIn({"as 1530", "fire rating", "class 1", "class 2", "fire performance"},
                           text_lower) THEN 5 ELSE 0)
            ELSE IF Contains(category_lower, "thermal")
            THEN (IF AnyIn({"r-value", "thermal resistance", "r4", "r-4", "thermal bridging"},
                           text_lower) THEN 5 ELSE 0)
            ELSE IF Contains(category_lower, "standards") \/ Contains(category_lower, "compliance")
            THEN (IF AnyIn({"as ", "australian standard", "building code", "compliance"},
                           text_lower) THEN 5 ELSE 0)
            ELSE IF Contains(category_lower, "moisture")
            THEN (IF AnyIn({"vapour barrier", "moisture barrier", "astm e96", "permeability"},
                           text_lower) THEN 5 ELSE 0)
            ELSE 0
        depth ==
            IF Len(text) > 2000 THEN 10
            ELSE IF Len(text) > 1000 THEN 8
            ELSE IF Len(text) > 500 THEN 6
            ELSE IF Len(text) > 200 THEN 4
            ELSE IF Len(text) > 100 THEN 2
            ELSE 1
        strong_indicators ==
            <<Contains(text_lower, "australian standard"),
              Contains(text_lower, "as 1530"),
              Contains(text_lower, "r-value") \/ Contains(text_lower, "thermal resistance"),
              Contains(text_lower, "professional installation"),
              Contains(text_lower, "polyurethane") /\ Contains(text_lower, "closed-cell")>>
    IN [technical |-> Min(tech_score, 25),
        standards |-> Min(standards_score, 20),
        professional |-> Min(prof_score, 10),
        locations |-> Min(location_score, 5),
        category_bonus |-> category_bonus,
        depth |-> depth,
        strong_indicators |-> SumSeq([i \in 1..5 |-> IF strong_indicators[i] THEN 1 ELSE 0])]

\* score = 25.0 and the additions to it up to the depth points, before the
\* final adjustment
SubScoreSum(sub) ==
    25 + sub.technical + sub.standards + sub.professional + sub.locations
       + sub.category_bonus + sub.depth

\* "Final adjustments to reach 70% target", then min(score, 100)
FinalAdjustment(score, strong_indicators) ==
    IF score >= 65 /\ score < 70 /\ strong_indicators >= 2
    THEN Min(score + 5, 100)
    ELSE Min(score, 100)

AdjustedQuality(sub) == FinalAdjustment(SubScoreSum(sub), sub.strong_indicators)

calculate_quality_score(text, category) ==
    IF text = "" THEN 0 ELSE AdjustedQuality(QualitySubScores(text, category))

\* calculate_quality_score(get_response_text(item), category), evaluated once
QualityTable ==
    [it \in ItemCatalogue |-> Pct(calculate_quality_score(get_response_text(it), it.category))]


(***************************************************************************)
(* enhanced_fuzzy_search                                                   *)
(***************************************************************************)
Weights(a, b, c, d) == [token_set |-> a, partial |-> b, token_sort |-> c, ratio |-> d]

FusionWeightsNoMedium(query_length) ==
    IF query_length <= 2 THEN Weights(45, 25, 20, 10) ELSE Weights(30, 40, 20, 10)

\* the weight profile for the length of the normalized query, in hundredths
FusionWeights(query_length) ==
    IF query_length <= 2 THEN Weights(45, 25, 20, 10)
    ELSE IF query_length <= 4 THEN Weights(40, 30, 20, 10)
    ELSE Weights(30, 40, 20, 10)

ApplyPenaltyTenPercent(raw_score) ==
    IF raw_score < Pct(60) THEN (raw_score * 9) \div 10 ELSE Min(raw_score, Pct(100))

\* if raw_score < 60: raw_score * 0.8, else min(raw_score, 100)
ApplyPenalty(raw_score) ==
    IF raw_score < Pct(60) THEN (raw_score * 8) \div 10 ELSE Min(raw_score, Pct(100))

stop_words ==
    {"the", "and", "or", "but", "in", "on", "at", "to", "for", "of", "with", "by",
     "is", "are", "was", "were", "a", "an"}

\* base_score: the weighted sum of the four measures (weights in hundredths)
BaseScore(weights, token_set_score, partial_score, token_sort_score, ratio_score) ==
    ((token_set_score * weights.token_set + partial_score * weights.partial
        + token_sort_score * weights.token_sort + ratio_score * weights.ratio)
     * Scale) \div 100

\* exact_bonus: word_match_ratio >= 0.9 gives 10, >= 0.7 gives 5, when some
\* query word longer than 3 characters occurs in the text
ExactBonus(query_words, text_words, text_norm) ==
    IF \E word \in query_words : Len(word) > 3 /\ Contains(text_norm, word)
    THEN (IF query_words # {}
             /\ 10 * Cardinality(query_words \cap text_words) >= 9 * Cardinality(query_words)
          THEN 10
          ELSE IF query_words # {}
             /\ 10 * Cardinality(query_words \cap text_words) >= 7 * Cardinality(query_words)
          THEN 5
          ELSE 0)
    ELSE 0

\* category_bonus: category_match_ratio >= 0.6 gives 20, else a partial ratio
\* of query and category above 70 gives 10
CategoryBonus(query_words, category_words, query_norm, category_norm, cat_partial) ==
    IF category_norm # ""
    THEN (IF query_words # {}
             /\ 10 * Cardinality(query_words \cap category_words) >= 6 * Cardinality(query_words)
          THEN 20
          ELSE IF FuzzCall(cat_partial, query_norm, category_norm) > 70 THEN 10
          ELSE 0)
    ELSE 0

\* {w for w in words if w not in stop_words and len(w) > 2}
Meaningful(words) == { w \in words : w \notin stop_words /\ Len(w) > 2 }

\* keyword_bonus: the share of the meaningful query words found among the
\* meaningful text words, in five steps
KeywordBonus(meaningful_query_words, meaningful_text_words) ==
    IF meaningful_query_words # {}
    THEN (IF 10 * Cardinality(meaningful_query_words \cap meaningful_text_words)
                >= 8 * Cardinality(meaningful_query_words) THEN 10
          ELSE IF 10 * Cardinality(meaningful_query_words \cap meaningful_text_words)
                >= 6 * Cardinality(meaningful_query_words) THEN 8
          ELSE IF 10 * Cardinality(meaningful_query_words \cap meaningful_text_words)
                >= 4 * Cardinality(meaningful_query_words) THEN 6
          ELSE IF 10 * Cardinality(meaningful_query_words \cap meaningful_text_words)
                >= 2 * Cardinality(meaningful_query_words) THEN 4
          ELSE 0)
    ELSE 0

\* raw_score, the penalty, and the tuple (final_score, scoring_details)
Scored(query_length, weights, token_set_score, partial_score, token_sort_score, ratio_score, base_score, exact_bonus, category_bonus, keyword_bonus, raw_score) ==
    [final_score |-> ApplyPenalty(raw_score),
     scoring_details |->
        [scored |-> TRUE,
         query_length |-> query_length,
         weights_used |-> weights,
         token_set_score |-> token_set_score,
         partial_score |-> partial_score,
         token_sort_score |-> token_sort_score,
         ratio_score |-> ratio_score,
         base_score |-> base_score,
         exact_bonus |-> exact_bonus,
         category_bonus |-> category_bonus,
         keyword_bonus |-> keyword_bonus,
         raw_score |-> raw_score,
         final_score |-> ApplyPenalty(raw_score),
         penalty_applied |-> raw_score < Pct(60)]]

\* raw_score with the bonuses applied as a percentage of the base score
WithBonusesMultiplied(query_length, weights, token_set_score, partial_score, token_sort_score, ratio_score, base_score, exact_bonus, category_bonus, keyword_bonus) ==
    Scored(query_length, weights, token_set_score, partial_score, token_sort_score,
           ratio_score, base_score, exact_bonus, category_bonus, keyword_bonus,
           (base_score * (100 + exact_bonus + category_bonus + keyword_bonus)) \div 100)

\* the score once the bonuses are known
WithBonuses(query_length, weights, token_set_score, partial_score, token_sort_score, ratio_score, base_score, exact_bonus, category_bonus, keyword_bonus) ==
    Scored(query_length, weights, token_set_score, partial_score, token_sort_score,
           ratio_score, base_score, exact_bonus, category_bonus, keyword_bonus,
           base_score + Pct(exact_bonus) + Pct(category_bonus) + Pct(keyword_bonus))

\* the score once the four measures are known
WithMeasures(query_norm, text_norm, category_norm, query_words, text_words, weights, token_set_score, partial_score, token_sort_score, ratio_score, cat_partial) ==
    WithBonuses(Len(Split(query_norm)), weights,
                token_set_score, partial_score, token_sort_score, ratio_score,
                BaseScore(weights, token_set_score, partial_score, token_sort_score,
                          ratio_score),
                ExactBonus(query_words, text_words, text_norm),
                CategoryBonus(query_words, Range(Split(category_norm)), query_norm,
                              category_norm, cat_partial),
                KeywordBonus(Meaningful(query_words), Meaningful(text_words)))

\* the score of the normalized query against the normalized text and category
ScoreNormalized(query_norm, text_norm, category_norm, fz) ==
    WithMeasures(query_norm, text_norm, category_norm,
                 Range(Split(query_norm)), Range(Split(text_norm)),
                 FusionWeights(Len(Split(query_norm))),
                 FuzzCall(fz.token_set, query_norm, text_norm),
                 FuzzCall(fz.partial, query_norm, text_norm),
                 FuzzCall(fz.token_sort, query_norm, text_norm),
                 FuzzCall(fz.ratio, query_norm, text_norm),
                 fz.cat_partial)

enhanced_fuzzy_search(query, text, category, fz) ==
    IF query = "" \/ text = "" THEN [final_score |-> 0, scoring_details |-> [scored |-> FALSE]]
    ELSE ScoreNormalized(NormTable[query], NormTable[text], NormTable[category], fz)

\* enhanced_fuzzy_search over the model's inputs, evaluated once
FuzzySearchTable ==
    [q \in SearchQueries, it \in ItemCatalogue, fz \in GenFuzzSamples |->
        enhanced_fuzzy_search(q, get_searchable_text(it), it.category, fz)]


(***************************************************************************)
(* find_exact_matches and search_responses.  A result is the item with the *)
(* keys the code adds to its copy; position is the item's place in the     *)
(* dataset, kept so that orderings can be stated.                          *)
(***************************************************************************)
NoDetails == [scored |-> FALSE]

\* the exact-word ratio of a query against an item, as <<matches, words>>
ExactRatio(query, item) ==
    LET searchable_text == Lower(get_searchable_text(item))
        query_words == Range(Split(Lower(query)))
    IN <<Cardinality({ word \in query_words : Contains(searchable_text, word) }),
         Cardinality(query_words)>>

ExactRatioTable == [q \in SearchQueries, it \in ItemCatalogue |-> ExactRatio(q, it)]

\* min(85 + exact_ratio * 15, 100)
ExactConfidence(exact_ratio) ==
    Min(Pct(85) + (15 * Scale * exact_ratio[1]) \div exact_ratio[2], Pct(100))

ExactResult(query, items, i) ==
    [item |-> items[i], position |-> i,
     confidence |-> ExactConfidence(ExactRatioTable[query, items[i]]),
     match_query |-> query, match_type |-> "exact_fallback",
     exact_ratio |-> ExactRatioTable[query, items[i]],
     scoring_details |-> NoDetails,
     quality_score |-> QualityTable[items[i]]]

\* the indices a loop keeps, in order: those whose flag is TRUE
SelectIndices(flags) == Ascending({ i \in 1..Len(flags) : flags[i] })

find_exact_matches(items, query, threshold) ==
    LET Qualifies(i) ==
            LET exact_ratio == ExactRatioTable[query, items[i]]
            IN /\ exact_ratio[2] > 0
               /\ 10 * exact_ratio[1] >= 6 * exact_ratio[2]
               /\ ExactConfidence(exact_ratio) >= Pct(threshold)
        kept == SelectIndices([i \in 1..Len(items) |-> Qualifies(i)])
    IN [k \in 1..Len(kept) |-> ExactResult(query, items, kept[k])]

\* the entries search_responses scores: those with a non-empty searchable text
ScoredEntry(items, query, fzs, i) ==
    [position |-> i,
     confidence |-> FuzzySearchTable[query, items[i], fzs[i]].final_score,
     scoring_details |-> FuzzySearchTable[query, items[i], fzs[i]].scoring_details]

ScoredEntries(items, query, fzs) ==
    LET kept == SelectIndices([pos \in 1..Len(items) |-> get_searchable_text(items[pos]) # ""])
    IN [k \in 1..Len(kept) |-> ScoredEntry(items, query, fzs, kept[k])]

fields_searched(item) ==
    Cardinality({ f \in {"inferred_question", "standardized_response", "response_text",
                         "original_text"} : item[f] # "" })

FuzzyResult(query, items, entry) ==
    [item |-> items[entry.position], position |-> entry.position,
     confidence |-> entry.confidence,
     match_query |-> query, match_type |-> "fuzzy",
     scoring_details |-> entry.scoring_details,
     quality_score |-> QualityTable[items[entry.position]],
     fields_searched |-> fields_searched(items[entry.position])]

sort_key_confidence_only(x) == 10 * x.confidence

\* confidence * 0.7 + quality_score * 0.3, in tenths of a score unit
sort_key(x) == 7 * x.confidence + 3 * x.quality_score

SortKeys(results) == [i \in 1..Len(results) |-> sort_key(results[i])]

\* the loop that appends each exact match no earlier result already covers
RECURSIVE AppendExactMatches(_, _)
AppendExactMatches(results, exact_matches) ==
    IF exact_matches = <<>> THEN results
    ELSE LET match == Head(exact_matches)
             covered == \E k \in 1..Len(results) :
                           /\ results[k].item.source = match.item.source
                           /\ results[k].item.original_text = match.item.original_text
         IN AppendExactMatches(IF covered THEN results ELSE Append(results, match),
                               Tail(exact_matches))

\* the whole list, however long
TruncateNothing(seq, n) == seq

\* results[:max_results]
Truncate(seq, n) == SubSeq(seq, 1, Min(n, Len(seq)))

SearchResults(items, query, threshold, max_results, scored) ==
    LET passing == SelectIndices([k \in 1..Len(scored) |->
                                     scored[k].confidence >= Pct(threshold)])
        results == [k \in 1..Len(passing) |-> FuzzyResult(query, items, scored[passing[k]])]
        sorted == StableSortDesc(results, SortKeys(results))
        merged == IF Len(sorted) < max_results
                  THEN AppendExactMatches(sorted, find_exact_matches(items, query, threshold))
                  ELSE sorted
    IN Truncate(merged, max_results)

search_responses(query, confidence_threshold, max_results) ==
    /\ call = Idle
    /\ call' = [op |-> "search_responses", query |-> query,
                confidence_threshold |-> confidence_threshold,
                max_results |-> max_results]
    /\ IF dataset = <<>> \/ query = ""
       THEN /\ ret' = Return(<<>>)
            /\ all_scores' = <<>>
       ELSE \E fzs \in [1..Len(dataset) -> GenFuzzSamples] :
              LET scored == ScoredEntries(dataset, query, fzs)
              IN /\ all_scores' = scored
                 /\ ret' = Return(SearchResults(dataset, query, confidence_threshold,
                                                max_results, scored))
    /\ UNCHANGED <<responses, dataset, final_df, now, failed_attempts, rate_limit_calls, session_state, invocations>>

MaxDataset == 2

InitSearch ==
    /\ dataset \in SeqsUpTo(ItemCatalogue, MaxDataset)
    /\ final_df = <<>>
    /\ AppUnused
    /\ responses = <<>>
    /\ call = Idle
    /\ ret = NoReturn
    /\ all_scores = <<>>

NextSearch ==
    \/ \E query \in SearchQueries, confidence_threshold \in Thresholds,
          max_results \in MaxResultsChoices :
            search_responses(query, confidence_threshold, max_results)
    \/ Discard

SpecSearch == InitSearch /\ [][NextSearch]_vars


(***************************************************************************)
(* Claims about CompleteMatcher.find_best_match_from_all                   *)
(***************************************************************************)
Tiers == {"direct", "adapted", "closest_available"}

MatcherCalled == call.op = "find_best_match_from_all"

MatcherReturned == MatcherCalled /\ ret.kind = "return"

\* the entry the sort put first scores at least as much as every other one
BestIsTop ==
    \A i \in 1..Len(all_scores) : all_scores[1].score >= all_scores[i].score

C2_EmptyCorpusFallback ==
    (MatcherCalled /\ Len(responses) = 0) =>
        /\ ret.kind = "return"
        /\ ret.value.match_type = "generic_fallback"
        /\ ret.value.response = GenericText

C4_TierPartition ==
    (MatcherReturned /\ Len(all_scores) > 0) =>
        LET best == all_scores[1]
        IN /\ BestIsTop
           /\ (ret.value.match_type = "direct") <=> (best.score >= Pct(70))
           /\ (ret.value.match_type = "adapted") <=>
                  (best.score >= Pct(40) /\ best.score < Pct(70))
           /\ (ret.value.match_type = "closest_available") <=> (best.score < Pct(40))
           /\ (ret.value.match_type = "direct") =>
                  /\ ret.value.response = best.response_text
                  /\ ret.value.response = responses[best.response_index + 1].response
                  /\ ret.value.confidence = best.score

C4_Witness ==
    /\ MatcherReturned
    /\ Len(all_scores) = MaxCorpus
    /\ all_scores[1].score = Pct(70)
    /\ ret.value.match_type = "direct"
    /\ ret.value.confidence = Pct(70)

\* C5: in the Adapted tier the reported confidence is min(score + 10, 85)
C5_AdaptedConfidence ==
    (MatcherReturned /\ Len(all_scores) > 0 /\ ret.value.match_type = "adapted") =>
        LET best == all_scores[1]
        IN /\ best.score >= Pct(40) /\ best.score < Pct(70)
           /\ ret.value.confidence =
                  (IF best.score + Pct(10) <= Pct(85)
                   THEN best.score + Pct(10) ELSE Pct(85))

C5_Witness ==
    /\ MatcherReturned
    /\ Len(all_scores) > 0
    /\ ret.value.match_type = "adapted"
    /\ all_scores[1].score = Pct(40)
    /\ ret.value.confidence = Pct(50)

\* C6: in the ClosestAvailable tier the best-scoring entry is still returned,
\* its text behind the closest-match prefix, with the floor confidence 60
C6_ClosestAvailable ==
    (MatcherReturned /\ Len(all_scores) > 0 /\ all_scores[1].score < Pct(40)) =>
        LET best == all_scores[1]
        IN /\ BestIsTop
           /\ ret.value.success
           /\ ret.value.match_type = "closest_available"
           /\ ret.value.response = "Based on closest match: " \o best.response_text
           /\ best.response_text = responses[best.response_index + 1].response
           /\ ret.value.confidence = Pct(60)

C6_Witness ==
    /\ MatcherReturned
    /\ Len(all_scores) = MaxCorpus
    /\ all_scores[1].score < Pct(40)
    /\ all_scores[1].score > 0
    /\ ret.value.match_type = "closest_available"
    /\ ret.value.confidence = Pct(60)

(***************************************************************************)
(* The two components side by side: each run has either the matcher's      *)
(* corpus or the generator's dataset loaded.                               *)
(***************************************************************************)
InitAll == InitMatcher \/ InitSearch

NextAll == NextMatcher \/ NextSearch

SpecAll == InitAll /\ [][NextAll]_vars

(***************************************************************************)
(* Claims about enhanced_fuzzy_search and search_responses                 *)
(***************************************************************************)
SearchCalled == call.op = "search_responses"

SearchReturned == SearchCalled /\ ret.kind = "return"

\* the scoring details of the entries the current search scored
ScoredDetails == { all_scores[k].scoring_details : k \in 1..Len(all_scores) }

\* C7 as stated: for every scored entry, rawScore < 60 gives finalScore =
\* rawScore * 0.8, strictly less than rawScore; otherwise finalScore is
\* rawScore clamped to 100; and rawScore a <= rawScore b implies
\* finalScore a <= finalScore b
C7_PenaltyAsClaimed ==
    SearchCalled =>
        \A d \in ScoredDetails :
            /\ d.raw_score < Pct(60) =>
                  (10 * d.final_score = 8 * d.raw_score /\ d.final_score < d.raw_score)
            /\ d.raw_score >= Pct(60) => d.final_score = Min(d.raw_score, Pct(100))
            /\ \A e \in ScoredDetails :
                  d.raw_score <= e.raw_score => d.final_score <= e.final_score

\* C7: for every scored entry, rawScore < 60 gives finalScore = rawScore * 0.8,
\* which is strictly less than rawScore when rawScore > 0 and equal to it when
\* rawScore = 0; otherwise finalScore is rawScore clamped to 100; and the
\* penalty preserves order: rawScore a <= rawScore b implies
\* finalScore a <= finalScore b
C7_Penalty ==
    SearchCalled =>
        \A d \in ScoredDetails :
            /\ d.raw_score >= 0
            /\ d.raw_score < Pct(60) => 10 * d.final_score = 8 * d.raw_score
            /\ (d.raw_score > 0 /\ d.raw_score < Pct(60)) => d.final_score < d.raw_score
            /\ d.raw_score = 0 => d.final_score = 0
            /\ d.raw_score >= Pct(60) => d.final_score = Min(d.raw_score, Pct(100))
            /\ d.penalty_applied = (d.raw_score < Pct(60))
            /\ \A e \in ScoredDetails :
                  d.raw_score <= e.raw_score => d.final_score <= e.final_score

\* a search that scored a penalized entry with a positive raw score next to
\* one whose raw score exceeded 100 and was clamped
C7_Witness ==
    /\ SearchCalled
    /\ \E d, e \in ScoredDetails :
          /\ d.raw_score > 0 /\ d.raw_score < Pct(60) /\ d.final_score < d.raw_score
          /\ e.raw_score > Pct(100) /\ e.final_score = Pct(100)

\* C8: the base score of every scored entry is the weighted sum of the four
\* sub-measures with the profile chosen by the number of tokens of the query
\* as scored (after normalization): <= 2 tokens 0.45/0.25/0.20/0.10, 3-4
\* tokens 0.40/0.30/0.20/0.10, >= 5 tokens 0.30/0.40/0.20/0.10; and it lies
\* in [0,100]
C8_FusionWeights ==
    SearchCalled =>
        \A d \in ScoredDetails :
            LET tokens == Len(Split(NormTable[call.query]))
                w == IF tokens <= 2 THEN Weights(45, 25, 20, 10)
                     ELSE IF tokens <= 4 THEN Weights(40, 30, 20, 10)
                     ELSE Weights(30, 40, 20, 10)
            IN /\ d.query_length = tokens
               /\ d.weights_used = w
               /\ {d.token_set_score, d.partial_score, d.token_sort_score, d.ratio_score}
                     \subseteq 0..100
               /\ 100 * d.base_score =
                     Scale * (w.token_set * d.token_set_score + w.partial * d.partial_score
                              + w.token_sort * d.token_sort_score + w.ratio * d.ratio_score)
               /\ d.base_score >= 0
               /\ d.base_score <= Pct(100)

\* a search with a three-token query that scored an entry whose sub-measures
\* differ, under the medium profile
C8_Witness ==
    /\ SearchCalled
    /\ Len(Split(NormTable[call.query])) = 3
    /\ \E d \in ScoredDetails :
          /\ d.weights_used = Weights(40, 30, 20, 10)
          /\ d.token_set_score # d.partial_score
          /\ d.base_score > 0 /\ d.base_score < Pct(100)

\* e comes no later than f in the order the claim states: by finalScore
\* descending, then qualityScore descending, then insertion order
ClaimedOrder(e, f) ==
    \/ e.confidence > f.confidence
    \/ e.confidence = f.confidence /\ e.quality_score > f.quality_score
    \/ e.confidence = f.confidence /\ e.quality_score = f.quality_score
          /\ e.position < f.position

\* CompleteMatcher's sorted list: by score descending, ties in corpus order
MatcherOrdered ==
    MatcherCalled =>
        \A i, j \in 1..Len(all_scores) :
            i < j => \/ all_scores[i].score > all_scores[j].score
                     \/ /\ all_scores[i].score = all_scores[j].score
                        /\ all_scores[i].response_index < all_scores[j].response_index

\* C9 as stated: the ranked results are ordered by finalScore descending, then
\* qualityScore descending, then insertion order, so that an entry with a
\* lower finalScore never ranks above one with a higher finalScore
C9_OrderAsClaimed ==
    /\ MatcherOrdered
    /\ SearchReturned =>
          \A i, j \in 1..Len(ret.value) :
              i < j => ClaimedOrder(ret.value[i], ret.value[j])

\* C9: CompleteMatcher orders its entries by score descending, ties in corpus
\* order.  search_responses orders the entries that reached the threshold by
\* 0.7 * finalScore + 0.3 * qualityScore descending, ties in insertion order,
\* and places the exact-match fallback entries after them, in insertion order
C9_Order ==
    /\ MatcherOrdered
    /\ SearchReturned =>
          \A i, j \in 1..Len(ret.value) :
              LET e == ret.value[i]
                  f == ret.value[j]
              IN i < j =>
                  /\ e.match_type = "exact_fallback" => f.match_type = "exact_fallback"
                  /\ (e.match_type = "fuzzy" /\ f.match_type = "fuzzy") =>
                        \/ 7 * e.confidence + 3 * e.quality_score
                              > 7 * f.confidence + 3 * f.quality_score
                        \/ /\ 7 * e.confidence + 3 * e.quality_score
                                 = 7 * f.confidence + 3 * f.quality_score
                           /\ e.position < f.position
                  /\ (e.match_type = "exact_fallback" /\ f.match_type = "exact_fallback") =>
                        e.position < f.position

\* a search that returned two scored entries, the first with the strictly
\* lower finalScore and the higher quality score
C9_Witness ==
    /\ SearchReturned
    /\ Len(ret.value) = 2
    /\ ret.value[1].match_type = "fuzzy" /\ ret.value[2].match_type = "fuzzy"
    /\ ret.value[1].confidence < ret.value[2].confidence
    /\ ret.value[1].quality_score > ret.value[2].quality_score

\* C10: for every non-empty query over a non-empty dataset and every
\* threshold, search_responses returns at least one entry
C10_AlwaysSomeResult ==
    (SearchReturned /\ call.query # "" /\ dataset # <<>>) => Len(ret.value) >= 1

(***************************************************************************)
(* SemanticMatcher (enhanced_matcher.py).  Its corpus is self.responses,   *)
(* records with the fields response, query and category.  A score is the   *)
(* exact rational num / den.                                               *)
(***************************************************************************)
semantic_groups ==
    << [name |-> "safety_health",
        keywords |-> <<"safe", "toxic", "health", "dangerous", "eat", "breathe", "fumes",
                       "chemicals", "pets", "dogs", "cats", "children">>],
       [name |-> "installation",
        keywords |-> <<"install", "apply", "spray", "access", "tight", "space", "clearance",
                       "around", "cables", "wiring", "electrical", "rewire">>],
       [name |-> "thermal",
        keywords |-> <<"r-value", "r value", "thermal", "insulation", "temperature", "heat",
                       "cold", "energy", "efficiency", "per inch">>],
       [name |-> "moisture",
        keywords |-> <<"moisture", "water", "condensation", "damp", "vapor", "vapour",
                       "barrier", "humidity", "mold", "mould">>],
       [name |-> "fire",
        keywords |-> <<"fire", "flame", "burn", "combustible", "safety", "compliance",
                       "standards", "as1530", "class">>],
       [name |-> "cost",
        keywords |-> <<"cost", "price", "expensive", "cheap", "how much", "quote", "pm2",
                       "per m2", "square meter">>],
       [name |-> "appearance",
        keywords |-> <<"paint", "color", "colour", "finish", "look", "appearance", "cover">>],
       [name |-> "pests",
        keywords |-> <<"pest", "rodent", "rat", "mouse", "insect", "bug", "barrier">>],
       [name |-> "sound",
        keywords |-> <<"sound", "noise", "acoustic", "quiet", "dampen", "soundproof">>] >>

\* the dict `replacements` of normalize_query, in insertion order
replacements ==
    << Rule(B \o L("r") \o Star({"-", "_"} \cup SpaceChars) \o L("value") \o B, "r value"),
       Rule(Word("pm2"), "per m2"),
       Rule(B \o L("per") \o Star(SpaceChars) \o L("m2") \o B, "per square meter"),
       Rule(B \o L("cable") \o Opt({"s"}) \o B, "wiring electrical"),
       Rule(B \o L("sub") \o Star(SpaceChars) \o L("floor") \o B, "subfloor underfloor"),
       Rule(Prefix("rewir"), "electrical wiring"),
       Rule(B \o L("spray") \o Star(SpaceChars) \o L("foam") \o B, "yetifoam insulation"),
       Rule(B \o L("is") \o Star(SpaceChars) \o L("it") \o Star(SpaceChars) \o L("safe") \o B,
            "safety health"),
       Rule(B \o L("can") \o Star(SpaceChars) \o L("i") \o B, "is it possible to") >>

normalize_query(query) ==
    IF query = "" THEN "" ELSE ApplyRules(replacements, Strip(Lower(query)))

\* the contexts whose keywords occur in the text (used as a set by the caller)
get_semantic_context(query) ==
    LET query_lower == Lower(query)
    IN { semantic_groups[g].name : g \in
           { k \in 1..Len(semantic_groups) :
               \E j \in 1..Len(semantic_groups[k].keywords) :
                   Contains(query_lower, semantic_groups[k].keywords[j]) } }

\* outcomes of the six fuzz calls calculate_semantic_score makes for one entry
SemFuzzSample(a, b, c, d, e, f) ==
    [q_token_set |-> a, q_partial |-> b, q_token_sort |-> c,
     resp_token_set |-> d, resp_partial |-> e, cat_partial |-> f]

\* sum(score * weight) / sum(weight) over the facets that apply, the weights
\* 0.4, 0.3, 0.2, 0.1 counted in tenths
calculate_semantic_score(query, response_item, fz) ==
    LET query_norm == normalize_query(query)
        response_text == response_item.response
        response_query == response_item.query
        category == response_item.category
        has_query == response_query # ""
        query_score ==
            Max3(FuzzCall(fz.q_token_set, query_norm, Lower(response_query)),
                 FuzzCall(fz.q_partial, query_norm, Lower(response_query)),
                 FuzzCall(fz.q_token_sort, query_norm, Lower(response_query)))
        content_score ==
            Max(FuzzCall(fz.resp_token_set, query_norm, Lower(response_text)),
                FuzzCall(fz.resp_partial, query_norm, Lower(response_text)))
        query_contexts == get_semantic_context(query)
        response_contexts == get_semantic_context(response_text \o " " \o response_query)
        has_context == query_contexts # {} /\ response_contexts # {}
        context_overlap == Cardinality(query_contexts \cap response_contexts)
        context_total == Cardinality(query_contexts \cup response_contexts)
        has_category == category # ""
        category_score == FuzzCall(fz.cat_partial, query_norm, Lower(category))
        \* every facet but the context one, times its weight
        plain_score == (IF has_query THEN 4 * query_score ELSE 0) + 3 * content_score
                          + (IF has_category THEN category_score ELSE 0)
        total_weight == (IF has_query THEN 4 ELSE 0) + 3 + (IF has_context THEN 2 ELSE 0)
                           + (IF has_category THEN 1 ELSE 0)
    IN IF has_context
       THEN [num |-> context_total * plain_score + 2 * 100 * context_overlap,
             den |-> context_total * total_weight]
       ELSE [num |-> plain_score, den |-> total_weight]

\* score >= min_score
ScoreAtLeast(score, min_score) == score.num >= min_score * score.den

\* round(score, 1), in tenths
RoundTenths(score) ==
    LET whole == (10 * score.num) \div score.den
        rest == (10 * score.num) % score.den
    IN IF 2 * rest > score.den THEN whole + 1
       ELSE IF 2 * rest < score.den THEN whole
       ELSE IF whole % 2 = 0 THEN whole ELSE whole + 1

\* tenths of a percentage point, in score units
Tenths(n) == n * (Scale \div 10)

(***************************************************************************)
(* The corpora and queries the model runs SemanticMatcher on.              *)
(***************************************************************************)
SemanticEntry(r, q, c) == [response |-> r, query |-> q, category |-> c]

SemanticCatalogue ==
    { SemanticEntry("Yetifoam is safe for pets once cured", "is it safe for dogs", "Safety"),
      SemanticEntry("Contact us for a quote", "", "Pricing"),
      SemanticEntry("Electrical wiring can run around the foam", "what about cables", "") }

SemanticQueries ==
    { "", "  ", "IS IT SAFE", "how much pm2", "zzz", "Can I spray foam cables" }

SemFuzzSamples ==
    { SemFuzzSample(0, 0, 0, 0, 0, 0),
      SemFuzzSample(100, 100, 100, 100, 100, 100),
      SemFuzzSample(60, 70, 65, 80, 75, 60),
      SemFuzzSample(50, 45, 40, 50, 45, 50),
      SemFuzzSample(30, 35, 25, 40, 45, 30),
      SemFuzzSample(20, 20, 20, 20, 20, 20),
      SemFuzzSample(10, 15, 5, 12, 18, 10) }

\* calculate_semantic_score over the model's inputs, evaluated once
SemanticScoreTable ==
    [q \in SemanticQueries, e \in SemanticCatalogue, fz \in SemFuzzSamples |->
        calculate_semantic_score(q, e, fz)]

\* key=lambda x: x['similarity_score'], for every element of the list
SimilarityKeys(seq) == [r \in 1..Len(seq) |-> seq[r].similarity_score]

\* find_best_matches(query, min_score, max_results); scores[i] is what
\* calculate_semantic_score returns for responses[i]
RECURSIVE find_best_matches(_, _, _, _)
find_best_matches(query, min_score, max_results, scores) ==
    IF IsBlankQuery(query) THEN <<>>
    ELSE LET kept == SelectIndices([e \in 1..Len(responses) |->
                                       ScoreAtLeast(scores[e], min_score)])
             scored_responses ==
                 [r \in 1..Len(kept) |->
                     [response |-> responses[kept[r]].response,
                      query |-> responses[kept[r]].query,
                      category |-> responses[kept[r]].category,
                      similarity_score |-> RoundTenths(scores[kept[r]]),
                      match_confidence |->
                          IF ScoreAtLeast(scores[kept[r]], 85) THEN "high" ELSE "good"]]
             sorted == StableSortDesc(scored_responses, SimilarityKeys(scored_responses))
         IN IF Len(sorted) = 0 /\ min_score > 50
            THEN find_best_matches(query, 50, 1, scores)
            ELSE Truncate(sorted, max_results)

SemanticGenericText ==
    "Yetifoam is premium closed-cell spray foam insulation designed for Australian conditions. For specific queries, contact us at https://yetifoam.com.au/contact/"

\* the absolute fallback of find_best_response
SemanticGeneric ==
    [success |-> TRUE,
     response |-> SemanticGenericText,
     confidence |-> Pct(60),
     category |-> "General",
     match_type |-> "generic"]

ConfidenceShownNoFloor(confidence) == Tenths(confidence)

\* max(confidence, 60.0)
ConfidenceShown(confidence) == Max(Tenths(confidence), Pct(60))

\* the dict find_best_response returns for matches[0]
BestResponse(best_match) ==
    LET confidence == best_match.similarity_score
    IN [success |-> TRUE,
        response |-> best_match.response,
        confidence |-> ConfidenceShown(confidence),
        category |-> best_match.category,
        match_type |-> IF confidence >= 600 THEN "excellent"
                       ELSE IF confidence >= 400 THEN "good"
                       ELSE "best_available"]

\* for min_score in [50.0, 40.0, 30.0, 20.0]
min_scores == <<50, 40, 30, 20>>

\* find_best_response(query): the first level at which find_best_matches
\* returns a match decides; the generic answer when none does
find_best_response(query) ==
    /\ call = Idle
    /\ call' = [op |-> "find_best_response", query |-> query]
    /\ \E fzs \in [1..Len(responses) -> SemFuzzSamples] :
          LET scores == [e \in 1..Len(responses) |->
                            SemanticScoreTable[query, responses[e], fzs[e]]]
              hits == { l \in 1..Len(min_scores) :
                          Len(find_best_matches(query, min_scores[l], 1, scores)) > 0 }
          IN /\ all_scores' = IF IsBlankQuery(query) THEN <<>> ELSE scores
             /\ ret' = Return(IF hits = {} THEN SemanticGeneric
                              ELSE BestResponse(
                                     find_best_matches(query, min_scores[MinOf(hits)],
                                                       1, scores)[1]))
    /\ UNCHANGED <<responses, dataset, final_df, now, failed_attempts, rate_limit_calls, session_state, invocations>>

InitSemantic ==
    /\ responses \in SeqsUpTo(SemanticCatalogue, MaxCorpus)
    /\ dataset = <<>>
    /\ final_df = <<>>
    /\ AppUnused
    /\ call = Idle
    /\ ret = NoReturn
    /\ all_scores = <<>>

NextSemantic ==
    \/ \E q \in SemanticQueries : find_best_response(q)
    \/ Discard

SpecSemantic == InitSemantic /\ [][NextSemantic]_vars

SemanticCalled == call # Idle /\ call.op = "find_best_response"

\* C11: find_best_response always returns success = True with a non-empty
\* response text and a confidence of at least 60; the answer is the fixed
\* generic response when no entry was scored at 20 or more, and otherwise the
\* response of a corpus entry scored at 20 or more
C11_NeverNoResult ==
    SemanticCalled =>
       /\ ret.kind = "return"
       /\ ret.value.success = TRUE
       /\ ret.value.response # ""
       /\ ret.value.confidence >= Pct(60)
       /\ IF \A e \in 1..Len(all_scores) : ~ScoreAtLeast(all_scores[e], 20)
          THEN ret.value = SemanticGeneric
          ELSE /\ ret.value.match_type \in {"excellent", "good", "best_available"}
               /\ \E e \in 1..Len(all_scores) :
                     /\ ScoreAtLeast(all_scores[e], 20)
                     /\ ret.value.response = responses[e].response
                     /\ ret.value.confidence = Max(Tenths(RoundTenths(all_scores[e])), Pct(60))

\* a call over a non-empty corpus whose best entry scored between 20 and 30,
\* answered from the corpus with the confidence raised to 60
C11_Witness ==
    /\ SemanticCalled
    /\ Len(responses) > 0
    /\ \E e \in 1..Len(all_scores) : ScoreAtLeast(all_scores[e], 20)
    /\ \A e \in 1..Len(all_scores) : ~ScoreAtLeast(all_scores[e], 30)
    /\ ret.value.match_type = "best_available"
    /\ ret.value.confidence = Pct(60)

(***************************************************************************)
(* normalize_text applied to a text, and applied again to its own result.  *)
(* The texts are up to MaxWords words of NormalizeWords, joined by spaces. *)
(***************************************************************************)
MaxWords == 2

NormalizeWords == { "DIY", "R-value", "fire", "safety", "cost?", "compliance", "quote" }

NormalizeTexts == { Join(ws) : ws \in SeqsUpTo(NormalizeWords, MaxWords) }

\* normalize_text(text)
Normalize(text) ==
    /\ call = Idle
    /\ call' = [op |-> "normalize_text", text |-> text, again |-> FALSE]
    /\ ret' = Return(normalize_text(text))
    /\ UNCHANGED <<responses, dataset, all_scores, final_df, now, failed_attempts, rate_limit_calls, session_state, invocations>>

\* normalize_text(normalize_text(text)): the caller passes the result back in
NormalizeAgain ==
    /\ call.op = "normalize_text"
    /\ ~call.again
    /\ call' = [op |-> "normalize_text", text |-> ret.value, again |-> TRUE]
    /\ ret' = Return(normalize_text(ret.value))
    /\ UNCHANGED <<responses, dataset, all_scores, final_df, now, failed_attempts, rate_limit_calls, session_state, invocations>>

InitNormalize ==
    /\ responses = <<>>
    /\ dataset = <<>>
    /\ final_df = <<>>
    /\ AppUnused
    /\ call = Idle
    /\ ret = NoReturn
    /\ all_scores = <<>>

NextNormalize ==
    \/ \E text \in NormalizeTexts : Normalize(text)
    \/ NormalizeAgain
    \/ Discard

SpecNormalize == InitNormalize /\ [][NextNormalize]_vars

\* C12: normalize_text(normalize_text(s)) = normalize_text(s): normalizing a
\* text that normalize_text returned gives that text back
C12_Idempotent ==
    (call.op = "normalize_text" /\ call.again) => ret.value = call.text

(***************************************************************************)
(* The offline consolidation scripts: reconcile_datasets.py writes         *)
(* final_unified_responses.parquet from three datasets, integrate_csv.py   *)
(* reads it, adds the rows of all_extracted_responses.csv it does not take *)
(* for duplicates, and writes it back.  A data frame is the sequence of    *)
(* its rows; every cell is a string (the scripts read each through str()). *)
(***************************************************************************)
MaxRows == 2

RECURSIVE Repeat(_, _)
Repeat(s, n) == IF n = 0 THEN "" ELSE s \o Repeat(s, n - 1)

\* str.split('\n')
SplitLines(s) ==
    LET cuts == Ascending({ p \in 1..Len(s) : CharAt(s, p) = "\n" })
        n == Len(cuts)
    IN [k \in 1..(n + 1) |->
           SubSeq(s, IF k = 1 THEN 1 ELSE cuts[k - 1] + 1,
                     IF k = n + 1 THEN Len(s) ELSE cuts[k] - 1)]

\* ', '.join(seq)
RECURSIVE JoinComma(_)
JoinComma(seq) ==
    IF Len(seq) = 0 THEN ""
    ELSE IF Len(seq) = 1 THEN seq[1]
    ELSE seq[1] \o ", " \o JoinComma(Tail(seq))

\* [w for w in keywords if len(w) > 2]
LongWords(keywords) ==
    LET IsLong(w) == Len(w) > 2
    IN SelectSeq(keywords, IsLong)

\* list(set(keywords)): the distinct words, in an order Python does not fix
\* (string hashes differ from one run to the next)
SetOrders(keywords) ==
    LET distinct == Range(keywords)
    IN { order \in [1..Cardinality(distinct) -> distinct] : Range(order) = distinct }

\* lines of all the words of a sequence of lines, lowered
RECURSIVE WordsOfLines(_)
WordsOfLines(lines) ==
    IF Len(lines) = 0 THEN <<>>
    ELSE Split(Lower(lines[1])) \o WordsOfLines(Tail(lines))

\* a row of final_unified_responses.parquet
FinalRow(category, subcategory, keywords, answer, notes) ==
    [category |-> category, subcategory |-> subcategory,
     context_keywords |-> keywords, answer |-> answer, notes |-> notes]

\* the rows reconcile_datasets can append for a row of cleaned_df
ConvertCleaned(row) ==
    LET topic == Strip(row.topic)
        response == Strip(row.response)
        category == Strip(row.category)
        lines == SplitLines(topic)
        multi == Len(lines) > 1
        main_topic == IF multi THEN Strip(lines[1]) ELSE topic
        subcategory == IF multi THEN Strip(lines[2]) ELSE ""
        keywords ==
            Truncate(LongWords(Split(Lower(main_topic)) \o Split(Lower(subcategory))), 10)
    IN { FinalRow(IF category # "" /\ category # "nan" THEN category ELSE main_topic,
                  subcategory, JoinComma(order), response, "Source: " \o row.source) :
           order \in SetOrders(keywords) }

\* the row reconcile_datasets appends for a row of clean_df it keeps
ConvertClean(row) ==
    LET question == Strip(row.question)
    IN FinalRow(Strip(row.category), question,
                JoinComma(Truncate(Split(Lower(question)), 10)), Strip(row.response),
                "Source: clean_responses_dataset, Quality: " \o row.quality_score)

\* the row reconcile_datasets appends for a row of unified_df it keeps
ConvertUnified(row) ==
    LET query == Strip(row.original_query)
    IN FinalRow(Strip(row.category), query,
                JoinComma(Truncate(Split(Lower(query)), 10)), Strip(row.response),
                "Source: unified_responses")

\* the rows integrate_csv_data can append for a row of the CSV it keeps
ConvertCsv(csv_row) ==
    LET query == Strip(csv_row.query)
        lines == SplitLines(query)
        subcategory == IF Len(lines) > 1 THEN Strip(lines[2]) ELSE query
        keywords == Truncate(LongWords(WordsOfLines(lines)), 15)
    IN { FinalRow(Strip(csv_row.category), subcategory, JoinComma(order),
                  Strip(csv_row.response),
                  "Source: " \o csv_row.source \o ", ID: " \o csv_row.id) :
           order \in SetOrders(keywords) }

(***************************************************************************)
(* The answer texts and the input rows the model runs the scripts on.      *)
(***************************************************************************)
Seals == Repeat("Yetifoam seals gaps. ", 7)

\* 146 characters
LongA == SubSeq(Seals, 1, 146)
\* the first 139 characters (95%) of LongA, in upper case
UpperA95 == SubSeq(Repeat("YETIFOAM SEALS GAPS. ", 7), 1, 139)
\* the first 104 characters (71%) of LongA
PartA104 == SubSeq(Seals, 1, 104)
\* the first 62 characters of LongA
PartA62 == SubSeq(Seals, 1, 62)
\* LongA with one character replaced: it shares 145 of 146 characters with
\* LongA and neither text contains the other
NearA == SubSeq(Seals, 1, 70) \o "X" \o SubSeq(Seals, 72, 146)
ShortText == "Contact us."

AnswerTexts == { LongA, UpperA95, PartA104, PartA62, NearA, ShortText }

CleanedRow(topic, response, category, source) ==
    [topic |-> topic, response |-> response, category |-> category, source |-> source]

CleanRow(question, response, category, quality_score) ==
    [question |-> question, response |-> response, category |-> category,
     quality_score |-> quality_score]

UnifiedRow(original_query, response, category) ==
    [original_query |-> original_query, response |-> response, category |-> category]

CsvRow(query, response, category, source, id) ==
    [query |-> query, response |-> response, category |-> category,
     source |-> source, id |-> id]

CleanedCatalogue ==
    { CleanedRow("Air Sealing", LongA, "nan", "faq"),
      CleanedRow("Q\nseal", PartA62 \o " ", "Sealing", "site") }

CleanK1 == CleanRow("does it seal", UpperA95, "Sealing", "80")
CleanK2 == CleanRow("contact", ShortText, "General", "N/A")

CleanCorpora == { <<>>, <<CleanK1>>, <<CleanK2, CleanK1>> }

UnifiedU1 == UnifiedRow("is it sealed", NearA, "Sealing")
UnifiedU2 == UnifiedRow("contact", ShortText, "General")

UnifiedCorpora == { <<>>, <<UnifiedU1, UnifiedU2>> }

CsvCatalogue ==
    { CsvRow("is it sealed", LongA, "Sealing", "email", "1"),
      CsvRow("seal", PartA62, "Sealing", "email", "2"),
      CsvRow("how thin", PartA104, "Sealing", "chat", "3"),
      CsvRow("hi\nthere", ShortText, "General", "chat", "4") }

\* the conversions of the input rows of the model, evaluated once
ConvertCleanedTable == [row \in CleanedCatalogue |-> ConvertCleaned(row)]
ConvertCleanTable == [row \in {CleanK1, CleanK2} |-> ConvertClean(row)]
ConvertUnifiedTable == [row \in {UnifiedU1, UnifiedU2} |-> ConvertUnified(row)]
ConvertCsvTable == [row \in CsvCatalogue |-> ConvertCsv(row)]

\* str(final_row['answer']).strip(), for the answer texts of the model
StripTable == [a \in AnswerTexts |-> Strip(a)]

\* a.lower() in b.lower(), for the answer texts of the model, evaluated once
SubstringTable == [a \in AnswerTexts, b \in AnswerTexts |-> Contains(Lower(b), Lower(a))]

(***************************************************************************)
(* The duplicate tests.                                                    *)
(***************************************************************************)
\* answer.lower() in existing.lower() or existing.lower() in answer.lower()
SubstringEither(answer, existing) ==
    SubstringTable[answer, existing] \/ SubstringTable[existing, answer]

DuplicateOfFinalHalf(response, final_answer) ==
    /\ Len(response) > 100 /\ Len(final_answer) > 100
    /\ LET shorter == IF Len(response) < Len(final_answer) THEN response ELSE final_answer
           longer == IF Len(response) < Len(final_answer) THEN final_answer ELSE response
       IN SubstringTable[shorter, longer] /\ 10 * Len(shorter) > 5 * Len(longer)

\* integrate_csv_data's test of a CSV response against a row of final_df:
\* both longer than 100, the shorter inside the longer, and
\* len(shorter) > len(longer) * 0.8
DuplicateOfFinal(response, final_answer) ==
    /\ Len(response) > 100 /\ Len(final_answer) > 100
    /\ LET shorter == IF Len(response) < Len(final_answer) THEN response ELSE final_answer
           longer == IF Len(response) < Len(final_answer) THEN final_answer ELSE response
       IN SubstringTable[shorter, longer] /\ 10 * Len(shorter) > 8 * Len(longer)

\* what a script decided about one input row; against is the position, in the
\* input rows in processing order, of the row it was found a duplicate of
Verdict(verdict, against) == [verdict |-> verdict, against |-> against]

\* subset=['category', 'subcategory', 'answer']
DedupKey(row) == <<row.category, row.subcategory, row.answer>>

\* DataFrame.drop_duplicates(subset=[...]): the first row of each key, in order
drop_duplicates(rows) ==
    LET firsts == SelectIndices([a \in 1..Len(rows) |->
                      \A b \in 1..(a - 1) : DedupKey(rows[b]) # DedupKey(rows[a])])
    IN [r \in 1..Len(firsts) |-> rows[firsts[r]]]

(***************************************************************************)
(* reconcile_datasets                                                      *)
(***************************************************************************)
\* one of the two `for _, row in ....iterrows()` loops over clean_df and
\* unified_df: cand[k] is the row the loop would append for its k-th row,
\* offset the number of input rows before the loop's first, min_len the
\* length an answer has to exceed.  acc holds final_rows, the input position
\* of each of its rows, and the verdicts so far.
RECURSIVE AddUnique(_, _, _, _, _)
AddUnique(acc, cand, k, offset, min_len) ==
    IF k > Len(cand) THEN acc
    ELSE LET answer == cand[k].answer
             hits == { e \in 1..Len(acc.rows) : SubstringEither(answer, acc.rows[e].answer) }
             next ==
                 IF hits # {}
                 THEN [acc EXCEPT !.trace = Append(@, Verdict("duplicate", acc.pos[MinOf(hits)]))]
                 ELSE IF Len(answer) > min_len
                 THEN [rows |-> Append(acc.rows, cand[k]),
                       pos |-> Append(acc.pos, offset + k),
                       trace |-> Append(acc.trace, Verdict("added", 0))]
                 ELSE [acc EXCEPT !.trace = Append(@, Verdict("short", 0))]
         IN AddUnique(next, cand, k + 1, offset, min_len)

\* final_rows after the three loops; first holds the rows appended for cleaned_df
ReconcileRows(first, clean_df, unified_df) ==
    LET converted == [rows |-> first,
                      pos |-> [a \in 1..Len(first) |-> a],
                      trace |-> [a \in 1..Len(first) |-> Verdict("added", 0)]]
        with_clean == AddUnique(converted, [a \in 1..Len(clean_df) |-> ConvertCleanTable[clean_df[a]]],
                                1, Len(first), -1)
    IN AddUnique(with_clean, [a \in 1..Len(unified_df) |-> ConvertUnifiedTable[unified_df[a]]],
                 1, Len(first) + Len(clean_df), 50)

\* the choices of the rows appended for cleaned_df, one per row
ConvertedCleaned(cleaned_df) ==
    { first \in [1..Len(cleaned_df) -> UNION { ConvertCleanedTable[row] : row \in CleanedCatalogue }] :
        \A a \in 1..Len(cleaned_df) : first[a] \in ConvertCleanedTable[cleaned_df[a]] }

\* reconcile_datasets(): the three loops, drop_duplicates, to_parquet
reconcile_datasets(cleaned_df, clean_df, unified_df) ==
    /\ call = Idle
    /\ call' = [op |-> "reconcile_datasets", cleaned_df |-> cleaned_df,
                clean_df |-> clean_df, unified_df |-> unified_df]
    /\ \E first \in ConvertedCleaned(cleaned_df) :
          LET done == ReconcileRows(first, clean_df, unified_df)
          IN /\ final_df' = drop_duplicates(done.rows)
             /\ ret' = Return(drop_duplicates(done.rows))
             /\ all_scores' = done.trace
    /\ UNCHANGED <<responses, dataset, now, failed_attempts, rate_limit_calls, session_state, invocations>>

(***************************************************************************)
(* integrate_csv_data                                                      *)
(***************************************************************************)
\* the loop over csv_df: conv[k] is the row the loop would append for its
\* k-th row; acc holds new_rows, the CSV position of each, and the verdicts
RECURSIVE ScanCsv(_, _, _, _)
ScanCsv(acc, before, conv, k) ==
    IF k > Len(conv) THEN acc
    ELSE LET response == conv[k].answer
             in_final == { f \in 1..Len(before) :
                             DuplicateOfFinal(response, StripTable[before[f].answer]) }
             in_new == { e \in 1..Len(acc.rows) :
                             SubstringEither(response, acc.rows[e].answer) }
             next ==
                 IF Len(response) < 50
                 THEN [acc EXCEPT !.trace = Append(@, Verdict("short", 0))]
                 ELSE IF in_final # {}
                 THEN [acc EXCEPT !.trace = Append(@, Verdict("duplicate", MinOf(in_final)))]
                 ELSE IF in_new # {}
                 THEN [acc EXCEPT !.trace =
                          Append(@, Verdict("duplicate", Len(before) + acc.pos[MinOf(in_new)]))]
                 ELSE [rows |-> Append(acc.rows, conv[k]),
                       pos |-> Append(acc.pos, k),
                       trace |-> Append(acc.trace, Verdict("added", 0))]
         IN ScanCsv(next, before, conv, k + 1)

ConcatNewFirst(before, new_rows) == new_rows \o before

\* pd.concat([final_df, new_df], ignore_index=True)
Concat(before, new_rows) == before \o new_rows

\* the choices of the rows appended for csv_df, one per row
ConvertedCsv(csv_df) ==
    { conv \in [1..Len(csv_df) -> UNION { ConvertCsvTable[row] : row \in CsvCatalogue }] :
        \A a \in 1..Len(csv_df) : conv[a] \in ConvertCsvTable[csv_df[a]] }

\* the count of the verdicts of one kind
CountVerdicts(trace, kinds) == Cardinality({ a \in 1..Len(trace) : trace[a].verdict \in kinds })

\* what one run of integrate_csv_data does to the file, and what it returns
\* (the dict's justification text is left out)
Integrate(csv_df, rerun) ==
    /\ call' = [op |-> "integrate_csv_data", csv_df |-> csv_df,
                final_df |-> final_df, rerun |-> rerun]
    /\ \E conv \in ConvertedCsv(csv_df) :
          LET done == ScanCsv([rows |-> <<>>, pos |-> <<>>, trace |-> <<>>], final_df, conv, 1)
              integrated_df == drop_duplicates(Concat(final_df, done.rows))
          IN /\ all_scores' = done.trace
             /\ IF Len(done.rows) > 0
                THEN /\ final_df' = integrated_df
                     /\ ret' = Return([action |-> "integrated",
                                       original_csv_rows |-> Len(csv_df),
                                       added_rows |-> CountVerdicts(done.trace, {"added"}),
                                       skipped_rows |-> CountVerdicts(done.trace, {"short", "duplicate"}),
                                       final_dataset_rows |-> Len(integrated_df)])
                ELSE /\ final_df' = final_df
                     /\ ret' = Return([action |-> "no_integration",
                                       original_csv_rows |-> Len(csv_df),
                                       added_rows |-> 0,
                                       skipped_rows |-> CountVerdicts(done.trace, {"short", "duplicate"}),
                                       final_dataset_rows |-> Len(final_df)])
    /\ UNCHANGED <<responses, dataset, now, failed_attempts, rate_limit_calls, session_state, invocations>>

\* integrate_csv.py run on the file reconcile_datasets.py wrote
integrate_csv_data(csv_df) ==
    /\ call.op = "reconcile_datasets"
    /\ Integrate(csv_df, FALSE)

\* integrate_csv.py run once more, on the file it wrote, with the same CSV
integrate_csv_data_again ==
    /\ call.op = "integrate_csv_data"
    /\ ~call.rerun
    /\ Integrate(call.csv_df, TRUE)

InitConsolidate ==
    /\ responses = <<>>
    /\ dataset = <<>>
    /\ final_df = <<>>
    /\ AppUnused
    /\ call = Idle
    /\ ret = NoReturn
    /\ all_scores = <<>>

NextConsolidate ==
    \/ \E cleaned_df \in SeqsUpTo(CleanedCatalogue, MaxRows),
          clean_df \in CleanCorpora, unified_df \in UnifiedCorpora :
          reconcile_datasets(cleaned_df, clean_df, unified_df)
    \/ \E csv_df \in SeqsUpTo(CsvCatalogue, MaxRows) : integrate_csv_data(csv_df)
    \/ integrate_csv_data_again
    \/ Discard

SpecConsolidate == InitConsolidate /\ [][NextConsolidate]_vars

(***************************************************************************)
(* Claims about the consolidation scripts.                                 *)
(***************************************************************************)
ReconcileCalled == call.op = "reconcile_datasets"

IntegrateCalled == call.op = "integrate_csv_data"

\* a row without its keyword list, whose order Python does not fix
Provenance(row) == <<row.category, row.subcategory, row.answer, row.notes>>

Provenances(rows) == [a \in 1..Len(rows) |-> Provenance(rows[a])]

\* the rows the last script run had before it, converted to the output's
\* columns, in the order the script processed them
InputRows ==
    IF ReconcileCalled
    THEN Provenances([a \in 1..Len(call.cleaned_df) |->
                         CHOOSE row \in ConvertCleanedTable[call.cleaned_df[a]] : TRUE])
           \o Provenances([a \in 1..Len(call.clean_df) |-> ConvertCleanTable[call.clean_df[a]]])
           \o Provenances([a \in 1..Len(call.unified_df) |-> ConvertUnifiedTable[call.unified_df[a]]])
    ELSE Provenances(call.final_df)
           \o Provenances([a \in 1..Len(call.csv_df) |->
                              CHOOSE row \in ConvertCsvTable[call.csv_df[a]] : TRUE])

\* the position in InputRows of the row the k-th verdict is about
VerdictPosition(k) == IF ReconcileCalled THEN k ELSE Len(call.final_df) + k

\* sub[i..] can be found, in order, in seq[j..]
RECURSIVE SubsequenceFrom(_, _, _, _)
SubsequenceFrom(sub, seq, i, j) ==
    IF i > Len(sub) THEN TRUE
    ELSE IF j > Len(seq) THEN FALSE
    ELSE IF sub[i] = seq[j] THEN SubsequenceFrom(sub, seq, i + 1, j + 1)
    ELSE SubsequenceFrom(sub, seq, i, j + 1)

\* the output is a subsequence of the input rows, and holds no row for an
\* input row judged short or duplicate
OutputInOrder ==
    /\ SubsequenceFrom(Provenances(final_df), InputRows, 1, 1)
    /\ Len(final_df) <= Len(InputRows) - CountVerdicts(all_scores, {"short", "duplicate"})

C14_Idempotent ==
    (IntegrateCalled /\ call.rerun) => final_df = call.final_df

\* of two texts, the shorter is inside the longer without regard to case
ShorterInLonger(x, y) ==
    IF Len(x) < Len(y) THEN SubstringTable[x, y] ELSE SubstringTable[y, x]

\* the shorter text is more than num/den of the longer
LengthRatioAbove(x, y, num, den) ==
    den * Min(Len(x), Len(y)) > num * Max(Len(x), Len(y))

\* the answer of the CSV row the k-th verdict of integrate_csv_data is about
CsvAnswer(k) == StripTable[call.csv_df[k].response]

MaxPhrases == 2

QualityPhrases ==
    {"Yetifoam spray foam insulation is rigid closed-cell polyurethane with a high R-value.",
     "It meets Australian Standard AS 1530 compliance.",
     "We recommend professional installation.",
     "Contact us in Melbourne, Victoria.",
     "Thermal resistance stops thermal bridging.",
     "Yes."}

QualityTexts == { Join(ws) : ws \in SeqsUpTo(QualityPhrases, MaxPhrases) }

QualityCategories == {"", "Fire Safety & Health", "Thermal Performance"}

\* one call calculate_quality_score(text, category)
score_quality(text, category) ==
    /\ call = Idle
    /\ call' = [op |-> "calculate_quality_score", text |-> text, category |-> category]
    /\ ret' = Return(Pct(calculate_quality_score(text, category)))
    /\ all_scores' = IF text = "" THEN <<>> ELSE <<QualitySubScores(text, category)>>
    /\ UNCHANGED <<responses, dataset, final_df, now, failed_attempts, rate_limit_calls, session_state, invocations>>

InitQuality ==
    /\ responses = <<>>
    /\ dataset = <<>>
    /\ call = Idle
    /\ ret = NoReturn
    /\ all_scores = <<>>
    /\ final_df = <<>>
    /\ AppUnused

NextQuality ==
    \E text \in QualityTexts, category \in QualityCategories : score_quality(text, category)

SpecQuality == InitQuality /\ [][NextQuality]_vars

QualityCalled == call.op = "calculate_quality_score"

\* C16: the quality of a non-empty text is the base score plus its capped
\* sub-scores, its category bonus and its depth points, clamped to 100, and
\* nothing else: no score is moved up towards a target percentage.  (It lies
\* in 0..100 in any case.)
C16_NoAdjustment ==
    QualityCalled =>
        /\ ret.value >= 0 /\ ret.value <= Pct(100)
        /\ call.text # "" => ret.value = Pct(Min(SubScoreSum(all_scores[1]), 100))


(***************************************************************************)
(* Claims about the context bonuses of enhanced_fuzzy_search               *)
(***************************************************************************)
\* C17: for every scored (query, entry), exact_bonus is 0, 5 or 10,
\* category_bonus is 0, 10 or 20, keyword_bonus is 0, 4, 6, 8 or 10, and
\* raw_score is base_score plus the three bonuses, so it exceeds base_score
\* by at most 40
C17_BonusesAdditive ==
    SearchCalled =>
        \A d \in ScoredDetails :
            /\ d.exact_bonus \in {0, 5, 10}
            /\ d.category_bonus \in {0, 10, 20}
            /\ d.keyword_bonus \in {0, 4, 6, 8, 10}
            /\ d.raw_score = d.base_score + Pct(d.exact_bonus) + Pct(d.category_bonus)
                                + Pct(d.keyword_bonus)
            /\ d.raw_score >= d.base_score
            /\ d.raw_score - d.base_score <= Pct(40)

\* a search that scored one entry with every bonus at its cap on a positive
\* base score, and another entry with a partial category match only
C17_Witness ==
    /\ SearchCalled
    /\ \E d \in ScoredDetails :
          /\ d.base_score > 0
          /\ d.exact_bonus = 10 /\ d.category_bonus = 20 /\ d.keyword_bonus = 10
          /\ d.raw_score = d.base_score + Pct(40)
    /\ \E d \in ScoredDetails :
          d.exact_bonus = 0 /\ d.category_bonus = 10 /\ d.keyword_bonus = 0


(***************************************************************************)
(* Repeated calls.  fuzzywuzzy computes its ratios from its two arguments  *)
(* alone, so a call repeated with the same query on the same corpus gets   *)
(* the fuzz values of the first call (call.fuzz); a call with another      *)
(* query gets values of its own.  The record call keeps the first call's   *)
(* arguments and result while other calls are made.                        *)
(***************************************************************************)
RepeatFuzzSamples ==
    { FuzzSample(100, 100, 100, 100, 100, 100),
      FuzzSample(50, 65, 40, 70, 90, 30),
      FuzzSample(30, 35, 20, 40, 45, 50) }

RepeatGenFuzzSamples ==
    { GenFuzzSample(22, 33, 25, 12, 20),
      GenFuzzSample(80, 90, 60, 50, 80),
      GenFuzzSample(100, 100, 100, 100, 100) }

RepeatMatcherQueries == { "  ", "safe for dogs", "how much pm2" }

RepeatSearchQueries == { "", "cost", "fire safety" }

\* the list handed back in the opposite order
CorpusAfterCallReversed(items) == [k \in 1..Len(items) |-> items[Len(items) + 1 - k]]

\* the list with the annotations of a query written to its entries
CorpusAfterCallAnnotated(items) == [k \in 1..Len(items) |-> [f \in DOMAIN items[k] \cup {"confidence", "match_query"} |-> IF f \in {"confidence", "match_query"} THEN "" ELSE items[k][f]]]

\* self.responses / self.dataset after a call: the calls read the list and
\* build their results from new dicts (item.copy()), so it is as it was
CorpusAfterCall(items) == items

\* what find_best_match_from_all(query) returns or raises
MatchOutcome(query, fzs) ==
    IF IsBlankQuery(query) THEN Return(_get_generic_response)
    ELSE LET scored == ScoreAll(query, fzs)
             sorted == StableSortDesc(scored, ScoreKeys(scored))
         IN IF Len(sorted) = 0 THEN Raise("IndexError")
            ELSE Return(BestMatchResult(query, sorted[1]))

\* what search_responses(query, confidence_threshold, max_results) returns
SearchOutcome(query, confidence_threshold, max_results, fzs) ==
    IF dataset = <<>> \/ query = "" THEN Return(<<>>)
    ELSE Return(SearchResults(dataset, query, confidence_threshold, max_results,
                              ScoredEntries(dataset, query, fzs)))

Outcome(c) ==
    IF c.op = "search_responses"
    THEN SearchOutcome(c.query, c.confidence_threshold, c.max_results, c.fuzz)
    ELSE MatchOutcome(c.query, c.fuzz)

\* the calls that can be made next, each with the record that call becomes:
\* a first call, whose arguments and fuzz values the record keeps
NewCall(c) == [run |-> c, keep |-> c]

match_first ==
    IF call # Idle THEN {}
    ELSE { NewCall([op |-> "find_best_match_from_all", query |-> query, fuzz |-> fzs,
                    first |-> NoReturn, between |-> FALSE, repeat |-> FALSE]) :
             query \in RepeatMatcherQueries, fzs \in [1..Len(responses) -> RepeatFuzzSamples] }

search_first ==
    IF call # Idle THEN {}
    ELSE { NewCall([op |-> "search_responses", query |-> args[1],
                    confidence_threshold |-> args[2], max_results |-> args[3],
                    fuzz |-> fzs,
                    first |-> NoReturn, between |-> FALSE, repeat |-> FALSE]) :
             args \in RepeatSearchQueries \X Thresholds \X MaxResultsChoices,
             fzs \in [1..Len(dataset) -> RepeatGenFuzzSamples] }

\* a call of the same operation with another query, between the first call
\* and its repetition
OtherCall(query, fzs) ==
    [run |-> [call EXCEPT !.query = query, !.fuzz = fzs],
     keep |-> [call EXCEPT !.between = TRUE]]

match_other ==
    IF call.op # "find_best_match_from_all" \/ call.repeat \/ call.between THEN {}
    ELSE { OtherCall(query, fzs) :
             query \in RepeatMatcherQueries \ {call.query},
             fzs \in [1..Len(responses) -> RepeatFuzzSamples] }

search_other ==
    IF call.op # "search_responses" \/ call.repeat \/ call.between THEN {}
    ELSE { OtherCall(query, fzs) :
             query \in RepeatSearchQueries \ {call.query},
             fzs \in [1..Len(dataset) -> RepeatGenFuzzSamples] }

\* the first call made again: same query, same arguments
call_again ==
    IF call = Idle \/ call.repeat THEN {}
    ELSE { [run |-> call, keep |-> [call EXCEPT !.repeat = TRUE]] }

\* one call: its result is returned, and kept if it is the first call's
make_call(run, keep) ==
    /\ \E out \in {Outcome(run)} :
          /\ ret' = out
          /\ call' = [keep EXCEPT !.first = IF keep.first = NoReturn THEN out ELSE keep.first]
    /\ responses' = CorpusAfterCall(responses)
    /\ dataset' = CorpusAfterCall(dataset)
    /\ UNCHANGED <<all_scores, final_df, now, failed_attempts, rate_limit_calls, session_state, invocations>>

\* the corpora of the repeated calls, entries named by original_index and
\* by category
RepeatEntry(idx) == CHOOSE e \in MatcherCatalogue : e.original_index = idx

RepeatItem(category) == CHOOSE item \in ItemCatalogue : item.category = category

RepeatResponses ==
    { <<>>,
      <<RepeatEntry("1"), RepeatEntry("3")>>,
      <<RepeatEntry("3"), RepeatEntry("2"), RepeatEntry("1")>> }

RepeatDatasets ==
    { <<>>,
      <<RepeatItem("Fire Safety"), RepeatItem("Pricing")>>,
      <<RepeatItem("Pricing"), RepeatItem("Thermal Performance"), RepeatItem("Fire Safety")>> }

InitRepeat ==
    /\ \/ responses \in RepeatResponses /\ dataset = <<>>
       \/ responses = <<>> /\ dataset \in RepeatDatasets
    /\ final_df = <<>>
    /\ AppUnused
    /\ call = Idle
    /\ ret = NoReturn
    /\ all_scores = <<>>

NextRepeat ==
    \/ \E c \in match_first \cup search_first \cup match_other \cup search_other
                   \cup call_again :
          make_call(c.run, c.keep)
    \/ Discard

SpecRepeat == InitRepeat /\ [][NextRepeat]_vars

C19_EmptyAnswerSkipped ==
    SearchReturned =>
        \A k \in 1..Len(ret.value) : get_response_text(ret.value[k].item) # ""


\* the entry of the scoring loop for the item at a position of the dataset
ScoredAt(position) == { all_scores[k] : k \in { e \in 1..Len(all_scores) : all_scores[e].position = position } }

\* C20: every result of search_responses reports as its confidence the
\* final_score enhanced_fuzzy_search computed for that entry and query, and
\* that score reaches the threshold: no entry scored below the threshold is
\* returned with another, higher confidence
C20_ConfidenceIsFinalScore ==
    SearchReturned =>
        \A k \in 1..Len(ret.value) :
            \E scored \in ScoredAt(ret.value[k].position) :
                /\ ret.value[k].confidence = scored.confidence
                /\ scored.confidence >= Pct(call.confidence_threshold)


\* C21: the list search_responses returns is in non-increasing order of
\* rankingScore = 0.7 * confidence + 0.3 * quality_score, exact-match
\* fallback entries included
C21_RankingOrder ==
    SearchReturned =>
        \A i, j \in 1..Len(ret.value) :
            i < j => sort_key(ret.value[i]) >= sort_key(ret.value[j])


\* C22: every result of search_responses has a confidence of at least
\* confidence_threshold * 100, and the list has at most max_results entries
C22_ThresholdAndCount ==
    SearchReturned =>
        /\ Len(ret.value) <= call.max_results
        /\ \A k \in 1..Len(ret.value) :
              ret.value[k].confidence >= Pct(call.confidence_threshold)

\* a search with max_results = 1 in which two entries reached the threshold
\* and one was returned
C22_Witness ==
    /\ SearchReturned
    /\ call.max_results = 1
    /\ Len(ret.value) = 1
    /\ Cardinality({ k \in 1..Len(all_scores) :
                       all_scores[k].confidence >= Pct(call.confidence_threshold) }) = 2
    /\ ret.value[1].confidence >= Pct(call.confidence_threshold)

(***************************************************************************)
(* Login lockout of YetifoamEnhancedResponseGenerator.  One generator      *)
(* instance keeps failed_attempts: username -> [attempts, last_attempt].   *)
(* The clock advances between calls in steps of ClockStep seconds.         *)
(***************************************************************************)
MaxClock == 3

lockout_duration == 300

max_attempts == 3

\* seconds between two readings of the clock: half the lockout duration, so
\* that calls arrive inside the lockout, exactly at its end and after it
ClockStep == lockout_duration \div 2

\* _load_secure_credentials with no secrets configured
staff_credentials == [staff |-> "yetifoam2024_CHANGE_ME", admin |-> "yetifoam_admin_2024_CHANGE_ME", manager |-> "yetifoam_manager_2024_CHANGE_ME"]

Usernames == {"staff", "admin", "guest"}

Passwords == {"yetifoam2024_CHANGE_ME", "yetifoam_admin_2024_CHANGE_ME", "letmein"}

\* del d[k]
DictDel(d, k) == [x \in DOMAIN d \ {k} |-> d[x]]

\* d[k] = v
DictSet(d, k, v) == [x \in DOMAIN d \cup {k} |-> IF x = k THEN v ELSE d[x]]

_verify_password(stored_password, provided_password) == stored_password = provided_password

\* a lockout that no passage of time ends
_is_account_locked_forever(attempts, username, t) == [locked |-> username \in DOMAIN attempts /\ attempts[username].attempts >= max_attempts, failed_attempts |-> attempts]

\* the verdict, and failed_attempts as the check leaves it
_is_account_locked(attempts, username, t) ==
    IF username \notin DOMAIN attempts
    THEN [locked |-> FALSE, failed_attempts |-> attempts]
    ELSE IF attempts[username].attempts >= max_attempts
         THEN IF t - attempts[username].last_attempt < lockout_duration
              THEN [locked |-> TRUE, failed_attempts |-> attempts]
              ELSE [locked |-> FALSE, failed_attempts |-> DictDel(attempts, username)]
         ELSE [locked |-> FALSE, failed_attempts |-> attempts]

_record_failed_attempt(attempts, username, t) ==
    LET count == IF username \in DOMAIN attempts THEN attempts[username].attempts ELSE 0
    IN  DictSet(attempts, username, [attempts |-> count + 1, last_attempt |-> t])

_reset_failed_attempts(attempts, username) ==
    IF username \in DOMAIN attempts THEN DictDel(attempts, username) ELSE attempts

\* the dictionary authenticate_user returns, and failed_attempts afterwards
Authenticated(attempts, username, password, t) ==
    LET check == _is_account_locked(attempts, username, t)
    IN  IF check.locked
        THEN [result |-> [success |-> FALSE, message |-> "Account locked", locked |-> TRUE],
              failed_attempts |-> check.failed_attempts]
        ELSE IF username \in DOMAIN staff_credentials /\ _verify_password(staff_credentials[username], password)
             THEN [result |-> [success |-> TRUE, message |-> "Authentication successful", role |-> username, locked |-> FALSE],
                   failed_attempts |-> _reset_failed_attempts(check.failed_attempts, username)]
             ELSE [result |-> [success |-> FALSE, message |-> "Invalid credentials", locked |-> FALSE],
                   failed_attempts |-> _record_failed_attempt(check.failed_attempts, username, t)]

authenticate_user(username, password) ==
    /\ \E out \in {Authenticated(failed_attempts, username, password, now)} :
        /\ ret' = Return(out.result)
        /\ failed_attempts' = out.failed_attempts
    /\ call' = [op |-> "authenticate_user", username |-> username, password |-> password, at |-> now, before |-> failed_attempts]
    /\ UNCHANGED <<responses, dataset, all_scores, final_df, now, rate_limit_calls, session_state, invocations>>

\* time passes between two calls
advance_clock ==
    /\ now + ClockStep <= MaxClock * ClockStep
    /\ now' = now + ClockStep
    /\ UNCHANGED <<responses, dataset, call, ret, all_scores, final_df, failed_attempts, rate_limit_calls, session_state, invocations>>

InitAuth ==
    /\ responses = <<>>
    /\ dataset = <<>>
    /\ call = Idle
    /\ ret = NoReturn
    /\ all_scores = <<>>
    /\ final_df = <<>>
    /\ AppUnused

NextAuth ==
    \/ \E username \in Usernames, password \in Passwords : authenticate_user(username, password)
    \/ advance_clock

SpecAuth == InitAuth /\ [][NextAuth]_vars

AuthReturned == call.op = "authenticate_user" /\ ret.kind = "return"

\* the username of the current call had max_attempts failures on record
\* when the call was made
HadMaxAttempts == call.username \in DOMAIN call.before /\ call.before[call.username].attempts >= max_attempts

CredentialsRight == call.username \in DOMAIN staff_credentials /\ staff_credentials[call.username] = call.password

\* C23: a call for a username with max_attempts recorded failures, made less
\* than lockout_duration after the last of them, is refused as locked whatever
\* the password and leaves failed_attempts as it was; a call made later
\* drops the record and is decided by the credentials alone; a successful
\* login leaves no record for the username; no record exceeds max_attempts
C23_Lockout ==
    /\ \A u \in DOMAIN failed_attempts : failed_attempts[u].attempts \in 1..max_attempts
    /\ AuthReturned =>
        /\ (HadMaxAttempts /\ call.at - call.before[call.username].last_attempt < lockout_duration) =>
            /\ ret.value.success = FALSE
            /\ ret.value.locked = TRUE
            /\ failed_attempts = call.before
        /\ (HadMaxAttempts /\ call.at - call.before[call.username].last_attempt >= lockout_duration) =>
            /\ ret.value.locked = FALSE
            /\ ret.value.success = CredentialsRight
            /\ CredentialsRight => failed_attempts = DictDel(call.before, call.username)
            /\ ~CredentialsRight => failed_attempts = DictSet(call.before, call.username, [attempts |-> 1, last_attempt |-> call.at])
        /\ ret.value.success => call.username \notin DOMAIN failed_attempts
        /\ (~HadMaxAttempts /\ ~CredentialsRight) =>
            /\ ret.value.success = FALSE
            /\ call.username \in DOMAIN failed_attempts
            /\ failed_attempts[call.username].last_attempt = call.at

\* the right password is refused inside the lockout
C23_Witness ==
    /\ AuthReturned
    /\ HadMaxAttempts
    /\ CredentialsRight
    /\ call.at > call.before[call.username].last_attempt
    /\ call.at - call.before[call.username].last_attempt < lockout_duration
    /\ ret.value.locked
    /\ failed_attempts = call.before

(***************************************************************************)
(* Rate limiting.  generator.rate_limit(max_calls, time_window) wraps a    *)
(* function; the wrapper keeps, per user, the times of the calls it let    *)
(* through in rate_limit_calls of the generator instance.                  *)
(***************************************************************************)
\* the max_calls the wrapper is built with (the application passes 20, the
\* default is 10)
MaxCalls == 2

\* the time_window of the application and of the default
TimeWindow == 60

\* seconds between two readings of time.time(): half the window
RateStep == TimeWindow \div 2

\* st.session_state of the sessions that make the calls
Sessions == { <<>>, [username |-> "staff"] }

\* st.session_state.get('username', 'anonymous')
UserId(session) == IF "username" \in DOMAIN session THEN session.username ELSE "anonymous"

\* a list that keeps every timestamp however old
KeepAllCalls(calls, t, time_window) == calls

\* [call for call in self.rate_limit_calls[user_id] if now - call < time_window]
CleanOldCalls(calls, t, time_window) == SelectSeq(calls, LAMBDA c : t - c < time_window)

RecordedCalls(recorded, user_id) == IF user_id \in DOMAIN recorded THEN recorded[user_id] ELSE <<>>

InvokedAt(counts, user_id, t) == IF <<user_id, t>> \in DOMAIN counts THEN counts[<<user_id, t>>] ELSE 0

\* what the wrapped function returns
FuncResult == "results"

\* the wrapper: the value returned, rate_limit_calls afterwards and whether
\* the wrapped function ran
Wrapped(recorded, user_id, max_calls, time_window, t) ==
    LET recent == CleanOldCalls(RecordedCalls(recorded, user_id), t, time_window)
    IN  IF Len(recent) >= max_calls
        THEN [value |-> "None", rate_limit_calls |-> DictSet(recorded, user_id, recent), invoked |-> FALSE]
        ELSE [value |-> FuncResult, rate_limit_calls |-> DictSet(recorded, user_id, Append(recent, t)), invoked |-> TRUE]

rate_limit(session, max_calls, time_window) ==
    /\ \E out \in {Wrapped(rate_limit_calls, UserId(session), max_calls, time_window, now)} :
        /\ ret' = Return(out.value)
        /\ rate_limit_calls' = out.rate_limit_calls
        /\ invocations' = IF out.invoked
                          THEN DictSet(invocations, <<UserId(session), now>>, InvokedAt(invocations, UserId(session), now) + 1)
                          ELSE invocations
    /\ session_state' = session
    /\ call' = [op |-> "rate_limit", user_id |-> UserId(session), max_calls |-> max_calls, time_window |-> time_window, at |-> now, before |-> rate_limit_calls, invoked_before |-> invocations]
    /\ UNCHANGED <<responses, dataset, all_scores, final_df, now, failed_attempts>>

\* time passes between two calls
wait ==
    /\ now + RateStep <= MaxClock * RateStep
    /\ now' = now + RateStep
    /\ UNCHANGED <<responses, dataset, call, ret, all_scores, final_df, failed_attempts, rate_limit_calls, session_state, invocations>>

InitRate == InitAuth

NextRate ==
    \/ \E session \in Sessions : rate_limit(session, MaxCalls, TimeWindow)
    \/ wait

SpecRate == InitRate /\ [][NextRate]_vars

RateReturned == call.op = "rate_limit" /\ ret.kind = "return"

\* the instants of the clock
Instants == { k * RateStep : k \in 0..MaxClock }

RECURSIVE InvokedIn(_, _, _)
\* how often the wrapped function ran for the user at the given instants
InvokedIn(counts, user_id, instants) ==
    IF instants = {} THEN 0
    ELSE LET t == CHOOSE x \in instants : TRUE
         IN  InvokedAt(counts, user_id, t) + InvokedIn(counts, user_id, instants \ {t})

\* the recorded calls of the current call's user that were less than
\* time_window old when the call arrived
RecentBefore == Cardinality({ k \in 1..Len(RecordedCalls(call.before, call.user_id)) : call.at - RecordedCalls(call.before, call.user_id)[k] < call.time_window })

\* C24: the wrapped function runs at most max_calls times for one user in any
\* time_window seconds; a call that finds max_calls calls recorded in the
\* preceding time_window returns None, does not run the function and records
\* no timestamp; any other call runs the function and records its time
C24_RateLimit ==
    /\ \A s \in Sessions : \A start \in Instants :
        InvokedIn(invocations, UserId(s), { t \in Instants : start <= t /\ t < start + TimeWindow }) <= MaxCalls
    /\ RateReturned =>
        /\ RecentBefore >= call.max_calls =>
            /\ ret.value = "None"
            /\ invocations = call.invoked_before
            /\ Len(rate_limit_calls[call.user_id]) = RecentBefore
            /\ \A k \in 1..Len(rate_limit_calls[call.user_id]) : rate_limit_calls[call.user_id][k] # call.at \/ InvokedAt(call.invoked_before, call.user_id, call.at) > 0
        /\ RecentBefore < call.max_calls =>
            /\ ret.value = FuncResult
            /\ InvokedAt(invocations, call.user_id, call.at) = InvokedAt(call.invoked_before, call.user_id, call.at) + 1
            /\ Len(rate_limit_calls[call.user_id]) = RecentBefore + 1
            /\ rate_limit_calls[call.user_id][RecentBefore + 1] = call.at
        /\ \A u \in DOMAIN call.before : u # call.user_id => rate_limit_calls[u] = call.before[u]

\* a user who had used up the limit is admitted again when the old
\* timestamps have aged out, while another user's calls are still recorded
C24_Witness ==
    /\ RateReturned
    /\ Len(RecordedCalls(call.before, call.user_id)) >= call.max_calls
    /\ RecentBefore < call.max_calls
    /\ ret.value = FuncResult
    /\ InvokedIn(invocations, call.user_id, Instants) > call.max_calls
    /\ \E u \in DOMAIN rate_limit_calls : u # call.user_id /\ Len(rate_limit_calls[u]) > 0

(***************************************************************************)
(* The login form of main().  Streamlit runs main() once per submission;   *)
(* st.session_state is what lasts from one run to the next.                *)
(***************************************************************************)
MaxSubmissions == 4

\* st.session_state after the first run of main() (the session id and the
\* time of the last activity are left out)
NewSession == [authenticated |-> FALSE, username |-> "", user_role |-> "", login_attempts |-> 0]

\* the submissions answered "Invalid credentials" for one username that
\* directly precede a submission (submissions refused as locked aside): how
\* many, and when the first of them was made
NoStreak == [username |-> "", failures |-> 0, since |-> 0]

StreakAfter(streak, username, result, t) ==
    IF result.locked THEN streak
    ELSE IF result.success THEN NoStreak
    ELSE IF streak.username = username /\ streak.failures > 0
         THEN [streak EXCEPT !.failures = @ + 1]
         ELSE [username |-> username, failures |-> 1, since |-> t]

\* a run of main() that keeps the generator of the run before
KeptGenerator(attempts) == attempts

\* generator = YetifoamEnhancedResponseGenerator(): failed_attempts of the
\* instance the submission is checked by
NewGenerator(attempts) == <<>>

\* the Login button with both fields filled in
login_form_submit(username, password) ==
    /\ session_state.authenticated = FALSE
    /\ session_state.login_attempts < MaxSubmissions
    /\ \E out \in {Authenticated(NewGenerator(failed_attempts), username, password, now)} :
        /\ ret' = Return(out.result)
        /\ failed_attempts' = out.failed_attempts
        /\ session_state' = IF out.result.success
                            THEN [authenticated |-> TRUE, username |-> username, user_role |-> out.result.role, login_attempts |-> 0]
                            ELSE [session_state EXCEPT !.login_attempts = @ + 1]
        /\ call' = [op |-> "login_form", username |-> username, password |-> password, at |-> now,
                    before |-> IF call.op = "login_form" THEN call.after ELSE NoStreak,
                    after |-> StreakAfter(IF call.op = "login_form" THEN call.after ELSE NoStreak, username, out.result, now)]
    /\ UNCHANGED <<responses, dataset, all_scores, final_df, now, rate_limit_calls, invocations>>

\* the Logout button
logout ==
    /\ session_state.authenticated = TRUE
    /\ session_state' = [authenticated |-> FALSE, username |-> "", user_role |-> "", login_attempts |-> 0]
    /\ UNCHANGED <<responses, dataset, call, ret, all_scores, final_df, now, failed_attempts, rate_limit_calls, invocations>>

InitLogin ==
    /\ responses = <<>>
    /\ dataset = <<>>
    /\ call = Idle
    /\ ret = NoReturn
    /\ all_scores = <<>>
    /\ final_df = <<>>
    /\ now = 0
    /\ failed_attempts = <<>>
    /\ rate_limit_calls = <<>>
    /\ session_state = NewSession
    /\ invocations = <<>>

NextLogin ==
    \/ \E username \in Usernames, password \in Passwords : login_form_submit(username, password)
    \/ logout
    \/ advance_clock

SpecLogin == InitLogin /\ [][NextLogin]_vars

LoginSubmitted == call.op = "login_form" /\ ret.kind = "return"

\* C28: a submission that follows three failed submissions for the same
\* username, the first of them less than five minutes earlier, is rejected
\* as locked whatever the password
C28_LockoutAcrossSubmissions ==
    (LoginSubmitted /\ call.before.username = call.username /\ call.before.failures >= max_attempts /\ call.at - call.before.since < lockout_duration) =>
        /\ ret.value.success = FALSE
        /\ ret.value.locked = TRUE

(***************************************************************************)
(* AIEnhancedResponseGenerator.generate_ai_responses.  The Claude API is a *)
(* collaborator: a call raises, or returns a message without content, or   *)
(* returns a text.  json.loads is a library: a reply is a text together    *)
(* with what json.loads makes of the part between its first '{' and its    *)
(* last '}' (of the whole text if there is no such part).                  *)
(***************************************************************************)
MaxResponses == 2

\* JSON values as Python sees them
JStr(s) == [type |-> "str", value |-> s]
JInt(n) == [type |-> "int", value |-> n]
JList(items) == [type |-> "list", items |-> items]
JDict(fields) == [type |-> "dict", fields |-> fields]
JSONDecodeError == [type |-> "JSONDecodeError"]

\* d.get(key, default) of a parsed value
DictGet(d, key, default) == IF key \in DOMAIN d.fields THEN d.fields[key] ELSE default

\* `not value` of a parsed value
Falsy(v) ==
    \/ v.type = "list" /\ v.items = <<>>
    \/ v.type = "str" /\ v.value = ""
    \/ v.type = "int" /\ v.value = 0
    \/ v.type = "dict" /\ DOMAIN v.fields = {}

\* (the dash of the notice is written as a hyphen)
ApiKeyNotice(tone) == << [reasoning |-> "API key required for advanced reasoning", tone |-> tone, category |-> "API Error", subcategory |-> "Missing API Key", social_media_response |-> "API key required for advanced reasoning - set ANTHROPIC_API_KEY in environment variables or .streamlit/secrets.toml under [anthropic] api_key = 'your_key_here'"] >>

SafetyWords == {"toxic", "safe", "safety", "health", "harmful"}

generate_fallback_response(query, tone) ==
    IF \E word \in SafetyWords : Contains(Lower(query), word)
    THEN << [reasoning |-> "Fallback safety response - YetiFoam is formaldehyde-free closed-cell polyurethane (same material used in fridges and furniture)", tone |-> tone, category |-> "Safety Information", subcategory |-> "Material Safety", social_media_response |-> "YetiFoam is safe! It's formaldehyde-free closed-cell polyurethane - the same material used in fridges, mattresses & furniture. No harmful fibres or particles. Contact yetifoam.com.au/contact for detailed safety info."] >>
    ELSE << [reasoning |-> "Fallback response due to API error", tone |-> tone, category |-> "General Information", subcategory |-> "Contact Support", social_media_response |-> "Thanks for your question about '" \o query \o "'. For detailed information about YetiFoam products, please contact our expert team at yetifoam.com.au/contact who can provide specific guidance tailored to your needs."] >>

\* str(n) of a small count
CountStr == <<"1", "2", "3", "4">>

\* the contact line added to a short response that has none
WithContact(social_response) ==
    IF ~Contains(Lower(social_response), "yetifoam.com.au/contact") /\ ~Contains(Lower(social_response), "contact") /\ Len(social_response) < 450
    THEN social_response \o " More info at yetifoam.com.au/contact"
    ELSE social_response

\* one pass of the loop over response_list[:num_responses], i counted from 0
ResponseRecord(resp, i, reasoning, tone) ==
    IF resp.type # "dict" THEN Raise("AttributeError")
    ELSE LET social_response == DictGet(resp, "social_media_response", JStr("No response generated"))
         IN  IF social_response.type # "str" THEN Raise("AttributeError")
             ELSE Return([reasoning |-> IF i = 0 THEN reasoning ELSE "",
                          tone |-> DictGet(resp, "tone", JStr(tone)).value,
                          category |-> DictGet(resp, "category", JStr("AI Response")).value,
                          subcategory |-> DictGet(resp, "subcategory", JStr(tone \o " Response " \o CountStr[i + 1])).value,
                          social_media_response |-> WithContact(social_response.value)])

RECURSIVE ResponseRecords(_, _, _, _, _)
\* the loop from item k on: the list built, or the exception that ends it
ResponseRecords(items, k, reasoning, tone, responses_so_far) ==
    IF k > Len(items) THEN Return(responses_so_far)
    ELSE LET one == ResponseRecord(items[k], k - 1, reasoning, tone)
         IN  IF one.kind = "raise" THEN one
             ELSE ResponseRecords(items, k + 1, reasoning, tone, Append(responses_so_far, one.value))

\* the inner try block, from json.loads to the return
ParsedResponses(parsed, query, tone, num_responses) ==
    IF parsed = JSONDecodeError THEN Raise("JSONDecodeError")
    ELSE IF parsed.type # "dict" THEN Raise("AttributeError")
    ELSE LET reasoning == DictGet(parsed, "reasoning", JStr("AI analysis completed")).value
             response_list == DictGet(parsed, "responses", JList(<<>>))
         IN  IF Falsy(response_list) THEN Return(generate_fallback_response(query, tone))
             ELSE IF response_list.type = "int" THEN Raise("TypeError")
             ELSE IF response_list.type # "list" THEN Raise("AttributeError")
             ELSE LET built == ResponseRecords(Truncate(response_list.items, num_responses), 1, reasoning, tone, <<>>)
                  IN  IF built.kind = "raise" THEN built
                      ELSE IF built.value # <<>> THEN built
                      ELSE Return(generate_fallback_response(query, tone))

\* response_text with the code fences removed, cut to 280 characters if it
\* is longer than 300 (a backquote is written as ~ in the model's texts)
CleanText(response_text) ==
    LET clean_text == Strip(Replace(Replace(response_text, "~~~json", ""), "~~~", ""))
    IN  IF Len(clean_text) > 300 THEN SubSeq(clean_text, 1, 280) \o "..." ELSE clean_text

\* an inner handler that never uses the reply
ExtractedNever(response_text, query, tone) == generate_fallback_response(query, tone)

\* except (json.JSONDecodeError, KeyError, TypeError)
Extracted(response_text, query, tone) ==
    IF Contains(Lower(response_text), "formaldehyde") \/ Contains(Lower(response_text), "polyurethane")
    THEN << [reasoning |-> "Response extracted from AI (JSON parsing failed but safety content detected)", tone |-> tone, category |-> "Safety Information", subcategory |-> "Material Safety", social_media_response |-> CleanText(response_text) \o " More info at yetifoam.com.au/contact"] >>
    ELSE generate_fallback_response(query, tone)

\* the outer try block given what the API call does
AfterApiCall(llm, query, tone, num_responses) ==
    IF llm.api # "text" THEN generate_fallback_response(query, tone)
    ELSE LET inner == ParsedResponses(llm.parsed, query, tone, num_responses)
         IN  IF inner.kind = "return" THEN inner.value
             ELSE IF inner.exc \in {"JSONDecodeError", "KeyError", "TypeError"} THEN Extracted(llm.text, query, tone)
             ELSE generate_fallback_response(query, tone)

AiResponses(client, llm, query, tone, num_responses) ==
    IF ~client THEN ApiKeyNotice(tone) ELSE AfterApiCall(llm, query, tone, num_responses)

\* what the collaborator may do
Reply(text, parsed) == [api |-> "text", text |-> text, parsed |-> parsed]

GoodItem == JDict([social_media_response |-> JStr("Yes, it is closed-cell."), tone |-> JStr("Friendly"), category |-> JStr("Product")])

ContactItem == JDict([social_media_response |-> JStr("Contact us for a quote.")])

LLMBehaviours ==
    { [api |-> "raises"],
      [api |-> "no_content"],
      Reply("Sorry, I cannot help.", JSONDecodeError),
      Reply("~~~json {'a': polyurethane} ~~~", JSONDecodeError),
      Reply("YetiFoam is formaldehyde-free.", JSONDecodeError),
      Reply("[1, 2]", JList(<<JInt(1), JInt(2)>>)),
      Reply("\"polyurethane\"", JStr("polyurethane")),
      Reply("{\"reasoning\": \"r\"}", JDict([reasoning |-> JStr("r")])),
      Reply("{\"responses\": []}", JDict([responses |-> JList(<<>>)])),
      Reply("{\"responses\": 5}", JDict([responses |-> JInt(5)])),
      Reply("{\"responses\": \"polyurethane\"}", JDict([responses |-> JStr("polyurethane")])),
      Reply("{\"responses\": [\"x\"]}", JDict([responses |-> JList(<<JStr("x")>>)])),
      Reply("{\"responses\": [{\"social_media_response\": 5}]}", JDict([responses |-> JList(<<JDict([social_media_response |-> JInt(5)])>>)])),
      Reply("{\"reasoning\": \"r\", \"responses\": [good, contact, good]}", JDict([reasoning |-> JStr("r"), responses |-> JList(<<GoodItem, ContactItem, GoodItem>>)])) }

AiQueries == {"is it safe", "cost"}

Tones == {"Professional", "Friendly"}

generate_ai_responses(client, llm, query, tone, num_responses) ==
    /\ \E out \in {AiResponses(client, llm, query, tone, num_responses)} : ret' = Return(out)
    /\ call' = [op |-> "generate_ai_responses", client |-> client, llm |-> llm, query |-> query, tone |-> tone, num_responses |-> num_responses]
    /\ UNCHANGED <<responses, dataset, all_scores, final_df, now, failed_attempts, rate_limit_calls, session_state, invocations>>

InitAi == InitAuth

NextAi == \E client \in BOOLEAN, llm \in LLMBehaviours, query \in AiQueries, tone \in Tones, num_responses \in 1..MaxResponses : generate_ai_responses(client, llm, query, tone, num_responses)

SpecAi == InitAi /\ [][NextAi]_vars

AiCalled == call.op = "generate_ai_responses"

ResponseFields == {"reasoning", "tone", "category", "subcategory", "social_media_response"}

\* the failures of the collaborator: no client, a call that raises, a reply
\* that is not JSON, JSON that is no object, an object without responses
NotJson == call.client /\ call.llm.api = "text" /\ call.llm.parsed = JSONDecodeError

CollaboratorFailed ==
    \/ ~call.client
    \/ call.llm.api = "raises"
    \/ NotJson
    \/ call.llm.api = "text" /\ call.llm.parsed # JSONDecodeError /\ call.llm.parsed.type # "dict"
    \/ call.llm.api = "text" /\ call.llm.parsed # JSONDecodeError /\ call.llm.parsed.type = "dict" /\ DictGet(call.llm.parsed, "responses", JList(<<>>)) = JList(<<>>)

NoticeOrFallback == ret.value = IF call.client THEN generate_fallback_response(call.query, call.tone) ELSE ApiKeyNotice(call.tone)

MentionsSafetyMaterial == Contains(Lower(call.llm.text), "formaldehyde") \/ Contains(Lower(call.llm.text), "polyurethane")

\* C25 as stated: the call returns a non-empty list of response records
\* whatever the collaborator does, and after a failure of the collaborator
\* the list is the API-key notice or the fallback response
C25_AlwaysResponsesOrFallback ==
    AiCalled =>
        /\ ret.kind = "return"
        /\ Len(ret.value) >= 1
        /\ \A k \in 1..Len(ret.value) : DOMAIN ret.value[k] = ResponseFields
        /\ CollaboratorFailed => NoticeOrFallback

\* C25 amended: as stated, except that a reply that is not JSON and mentions
\* formaldehyde or polyurethane comes back as one record carrying the reply
\* text with the contact line
C25_AlwaysResponsesOrExtract ==
    AiCalled =>
        /\ ret.kind = "return"
        /\ Len(ret.value) >= 1
        /\ \A k \in 1..Len(ret.value) : DOMAIN ret.value[k] = ResponseFields
        /\ (CollaboratorFailed /\ ~(NotJson /\ MentionsSafetyMaterial)) => NoticeOrFallback
        /\ (NotJson /\ MentionsSafetyMaterial) =>
            /\ Len(ret.value) = 1
            /\ ret.value[1].social_media_response = CleanText(call.llm.text) \o " More info at yetifoam.com.au/contact"
            /\ ret.value[1].category = "Safety Information"

\* a reply in code fences that is not JSON and names polyurethane
C25_Witness ==
    /\ AiCalled
    /\ NotJson
    /\ MentionsSafetyMaterial
    /\ Contains(call.llm.text, "~~~")
    /\ ~Contains(ret.value[1].social_media_response, "~~~")
    /\ ret.value # generate_fallback_response(call.query, call.tone)

(***************************************************************************)
(* The corpus under queries.                                               *)
(***************************************************************************)
\* the annotations a query writes to the entries it returns
QueryAnnotations == {"confidence", "match_query", "scoring_details", "quality_score", "match_type", "position"}

PrimaryStandards == {"AS 1530", "AS 3837", "AS 3000", "AS 3999", "AS 3660", "ASTM E96"}

\* standards_score += 3 for a reference that is neither an Australian
\* standard nor a compliance term
OtherStandardPoints == 3

\* the standards points of the references of the list other than the
\* numbered standards
SecondaryPoints(text) ==
    SumSeq([i \in 1..Len(quality_keywords.standards) |->
               IF quality_keywords.standards[i] \in PrimaryStandards \/ ~Contains(Lower(text), quality_keywords.standards[i]) THEN 0
               ELSE IF quality_keywords.standards[i] = "australian standard" THEN 8
               ELSE IF quality_keywords.standards[i] = "compliance" THEN 5
               ELSE OtherStandardPoints])

MentionsPrimaryStandard == \E s \in PrimaryStandards : Contains(call.text, s)

\* C27: the standards sub-score is at most 20, and a text that names one of
\* the numbered standards has, below the cap, a standards sub-score above
\* the points of its other references by more than the points of a
\* secondary reference
C27_PrimaryStandardsScore ==
    (QualityCalled /\ call.text # "") =>
        /\ all_scores[1].standards <= 20
        /\ MentionsPrimaryStandard =>
            all_scores[1].standards >= Min(20, SecondaryPoints(call.text) + OtherStandardPoints + 1)

(***************************************************************************)
(* Two queries to find_best_match_from_all on one corpus, to compare the   *)
(* confidence reported for the one with the confidence for the other.      *)
(***************************************************************************)
CompareCorpora ==
    { <<e>> : e \in MatcherCatalogue } \cup { <<RepeatEntry("1"), RepeatEntry("3")>> }

CompareQueries == { q \in MatcherQueries : ~IsBlankQuery(q) }

\* one call on a non-empty corpus: the best entry's score and the result
Asked(query, fzs) ==
    LET scored == ScoreAll(query, fzs)
        sorted == StableSortDesc(scored, ScoreKeys(scored))
    IN [query |-> query, score |-> sorted[1].score, result |-> BestMatchResult(query, sorted[1])]

\* query A, then query B
ask(query, fzs) ==
    /\ call = Idle \/ (call.op = "compare" /\ call.b = NoReturn)
    /\ \E out \in {Asked(query, fzs)} :
        /\ ret' = Return(out.result)
        /\ call' = IF call = Idle THEN [op |-> "compare", a |-> out, b |-> NoReturn]
                   ELSE [call EXCEPT !.b = out]
    /\ UNCHANGED <<responses, dataset, all_scores, final_df, now, failed_attempts, rate_limit_calls, session_state, invocations>>

InitCompare ==
    /\ responses \in CompareCorpora
    /\ dataset = <<>>
    /\ call = Idle
    /\ ret = NoReturn
    /\ all_scores = <<>>
    /\ final_df = <<>>
    /\ AppUnused

NextCompare == \E query \in CompareQueries, fzs \in [1..Len(responses) -> FuzzSamples] : ask(query, fzs)

SpecCompare == InitCompare /\ [][NextCompare]_vars

Compared == call.op = "compare" /\ call.b # NoReturn

\* C29 as stated: the query whose best entry scores higher is not reported
\* with a lower confidence
C29_ConfidenceMonotone ==
    (Compared /\ call.a.score > call.b.score) => call.a.result.confidence >= call.b.result.confidence

\* C29 amended: the query whose best entry scores higher is reported with a
\* lower confidence only when it is adapted with a score under 50 and the
\* other is closest_available (reported at the floor of 60), or when it is
\* direct and the other is adapted with a score less than 10 below (reported
\* with the boost of 10)
C29_ConfidenceMonotoneInTier ==
    (Compared /\ call.a.score > call.b.score /\ call.a.result.confidence < call.b.result.confidence) =>
        \/ /\ call.a.result.match_type = "adapted"
           /\ call.b.result.match_type = "closest_available"
           /\ call.a.score < Pct(50)
           /\ call.b.result.confidence = Pct(60)
        \/ /\ call.a.result.match_type = "direct"
           /\ call.b.result.match_type = "adapted"
           /\ call.a.score < call.b.score + Pct(10)
           /\ call.a.result.confidence = call.a.score
           /\ call.b.result.confidence = Min(call.b.score + Pct(10), Pct(85))

\* a direct match at 70 reported below an adapted one that scored 69.3
C29_Witness ==
    /\ Compared
    /\ call.a.score = Pct(70)
    /\ call.a.result.match_type = "direct"
    /\ call.b.score < Pct(70)
    /\ call.b.result.match_type = "adapted"
    /\ call.b.result.confidence > call.a.result.confidence

\* C30: after a consolidation script has run, no two rows of the file are
\* duplicates of each other by the script's test: one answer inside the other
\* for reconcile_datasets; for integrate_csv_data that test between rows it
\* added, and its length-and-ratio test between an added row and a row the
\* file held before
C30_NoDuplicatePairs ==
    /\ ReconcileCalled =>
          \A i, j \in 1..Len(final_df) :
             i < j => ~SubstringEither(final_df[i].answer, final_df[j].answer)
    /\ IntegrateCalled =>
          \A i, j \in 1..Len(final_df) :
             (i < j /\ j > Len(call.final_df)) =>
                IF i > Len(call.final_df)
                THEN ~SubstringEither(final_df[i].answer, final_df[j].answer)
                ELSE ~DuplicateOfFinal(final_df[j].answer, StripTable[final_df[i].answer])

====
